---- MODULE Spec2Model ----
(***************************************************************************)
(* The QA orchestration service of src/server.js: the admission guards of  *)
(* POST /start-qa and POST /rerun, the in-memory job registry activeJobs,  *)
(* the detached background task of an accepted run (link checks in chunks, *)
(* webhook forward, cleanup) and POST /cancel-job.                         *)
(*                                                                         *)
(* Node.js runs one handler at a time and switches only at an await, so an *)
(* action is the code between two awaits.  Where a claim speaks about the  *)
(* order of effects inside such a stretch (registry insert, res.json,      *)
(* start of the background task; stage 'completed', finally) the stretch   *)
(* is cut into steps, and no other handler may run in between (NoSync).    *)
(*                                                                         *)
(* Spec and FairSpec follow the service, with pages as counts.  Three      *)
(* further specifications follow one call each, with the data spelled out: *)
(* SchedSpec (checkMultiplePages), MergeSpec (the enrich step of a task)   *)
(* and AuditSpec (checkPageLinks); StatusSpec follows one request GET      *)
(* /job-status against a registry as the service can hold it, and          *)
(* AdmitSpec the guards of one request with the answers of the store.      *)
(***************************************************************************)
EXTENDS Integers, FiniteSets, Sequences, TLC

\* ------------------------------------------------------------------ bounds
MaxReqs == 2          \* requests /start-qa and /rerun in flight (or just answered) at a time
NumIdents == 2        \* distinct project names / project ids
MaxPages == 2         \* length of a request's pages array
MaxConcurrency == 1   \* largest settings.concurrency a request carries
MaxSchedPages == 3    \* longest page list given to one call of checkMultiplePages
MaxWidth == 2         \* largest concurrency given to one call of checkMultiplePages
MaxMergePages == 2    \* longest pages array whose enrich step is followed
MaxUrlLen == 3        \* longest page URL, in characters
MaxLinks == 2         \* anchors on an audited page, every combination followed
MaxLongLinks == 11    \* anchors on the longest audited page

\* allBrokenLinks.slice(0, 10) and the other example lists
ListCap == 10

\* parseInt(settings?.concurrency) || parseInt(process.env.MAX_CONCURRENCY) || 5
DefaultConcurrency == 5

Reqs == 1..MaxReqs
Idents == 1..NumIdents
Kinds == {"start-qa", "rerun"}

VARIABLES
  supabase,     \* the Supabase client exists (SUPABASE_URL and SUPABASE_ANON_KEY set)
  n8nRows,      \* the store holds pages with status in_progress / processing
  activeJobs,   \* the registry: job key -> job record
  pc,           \* where each request (handler, then background task) stands
  req,          \* the request body; webhook: n8n_webhook_url || N8N_WEBHOOK_URL is non-empty
  existing,     \* Guard 0's local existing: "none" (no row, or not queried), "row"
  n8nStatus,    \* the handler's local n8nStatus: "none" (not evaluated), "busy", "free"
  sawJobs,      \* history: owners of the registry entries when Guard 2 was evaluated
  racedWith,    \* history, kept until the answer: requests suspended in isN8nBusy together with this one
  resp,         \* the HTTP response sent to the request
  task,         \* locals of the background task
  posted,       \* the webhook POST the task issued
  cancelCount,  \* /cancel-job's local jobCount, -1 when no /cancel-job is in flight
  cancelResp,   \* the answer of /cancel-job
  cancelReset,  \* history: how the store reset of that /cancel-job went
  sched,        \* one call of checkMultiplePages, audit by audit (SchedSpec)
  merge,        \* one run of the enrich step of the handlers (MergeSpec)
  audit,        \* one call of checkPageLinks, link by link (AuditSpec)
  jobStatus,    \* one request GET /job-status (StatusSpec)
  admit         \* the guards of one request /start-qa or /rerun, with what the
                \* store answered (AdmitSpec)

\* the variables of the service
serviceVars == <<supabase, n8nRows, activeJobs, pc, req, existing, n8nStatus, sawJobs,
                 racedWith, resp, task, posted, cancelCount, cancelResp, cancelReset>>

\* the variables of the specifications that follow one function call
callVars == <<sched, merge, audit, jobStatus, admit>>

vars == <<serviceVars, callVars>>

\* ---------------------------------------------------------------- helpers
Min(a, b) == IF a < b THEN a ELSE b

NoResp == [status |-> 0, body |-> "", activeType |-> ""]
Resp400Invalid == [status |-> 400, body |-> "Invalid request", activeType |-> ""]
Resp400Config == [status |-> 400, body |-> "Configuration error", activeType |-> ""]
Resp409Duplicate == [status |-> 409, body |-> "duplicate_project", activeType |-> ""]
Resp409N8n == [status |-> 409, body |-> "server_busy", activeType |-> "n8n_processing"]
Resp409Busy(job) == [status |-> 409, body |-> "server_busy", activeType |-> job.type]
RespProcessing == [status |-> 200, body |-> "processing", activeType |-> ""]

NoReq == [kind |-> "", ident |-> 0, webhook |-> FALSE, staging |-> FALSE]
NoTask == [pages |-> 0, audited |-> 0, concurrency |-> 0, i |-> 0, started |-> 0]
NoPost == [path |-> "", pages |-> 0, linkChecks |-> 0, step1 |-> "", result |-> ""]

\* /cancel-job's answers: none yet, res.json({ success: true, ... clearedJobs }),
\* res.status(500).json({ success: false, ... })
NoCancelResp == [status |-> 0, success |-> FALSE, clearedJobs |-> -1]
CancelSuccess(jobCount) == [status |-> 200, success |-> TRUE, clearedJobs |-> jobCount]
CancelFailed == [status |-> 500, success |-> FALSE, clearedJobs |-> -1]

\* no call of checkMultiplePages, of the enrich step, of checkPageLinks, no request
\* GET /job-status, no admission is followed
NoSched == [pc |-> "none"]
NoMerge == [pc |-> "none"]
NoAudit == [pc |-> "none", log |-> <<>>]
NoStatus == [pc |-> "none"]
NoAdmit == [pc |-> "none"]

\* `start-qa:${project_data.project_name}` and `rerun:${project_id}`
jobKey(r) == <<req[r].kind, req[r].ident>>

\* the stretches of synchronous code that are cut into steps
Sync(r) == pc[r] \in {"registered", "acked", "completed", "spin"}

\* the exchange is over: answered with an error, or the background task returned
Finished(r) == pc[r] \in {"rejected", "done"}

\* a handler or continuation may start: no other one is in the middle of a
\* synchronous stretch (and every finished exchange has been put away)
NoSync == cancelResp = NoCancelResp /\ \A r \in Reqs : ~Sync(r) /\ ~Finished(r)

\* the background task of r has started and has not reached the end of finally
Executing(r) == pc[r] \in {"chunk", "spin", "post", "completed"}

Owners == {activeJobs[k].owner : k \in DOMAIN activeJobs}

\* concurrency of an accepted run: a negative settings.concurrency is truthy
Concurrency(s) == IF s # 0 THEN s ELSE DefaultConcurrency

\* Array.prototype.slice's reading of an index, for an array of n elements
SliceIndex(n, k) == IF k < 0 THEN (IF n + k < 0 THEN 0 ELSE n + k) ELSE Min(k, n)

\* pages.slice(i, i + concurrency).length, for n pages
Batch(n, i, concurrency) ==
  LET from == SliceIndex(n, i)
      to == SliceIndex(n, i + concurrency) IN
  IF to > from THEN to - from ELSE 0

\* Faulty variant of isN8nBusy: a query that fails counts as busy.
isN8nBusyFailsClosed(outcome) ==
  IF ~supabase THEN "free"
  ELSE IF outcome = "data" /\ ~n8nRows THEN "free" ELSE "busy"

\* isN8nBusy(): fails open without a client, on a query error and on an exception
isN8nBusy(outcome) ==
  IF ~supabase THEN "free"
  ELSE IF outcome = "data" /\ n8nRows THEN "busy" ELSE "free"

\* The progress callback the handlers pass to checkMultiplePages.
onPageComplete(jobs, key, checked, total) ==
  IF key \in DOMAIN jobs
  THEN [jobs EXCEPT ![key].checkedPages = checked, ![key].totalPages = total]
  ELSE jobs

\* no request /start-qa, /rerun or /cancel-job has arrived
NoRequests ==
  /\ pc = [r \in Reqs |-> "new"]
  /\ req = [r \in Reqs |-> NoReq]
  /\ existing = [r \in Reqs |-> "none"]
  /\ n8nStatus = [r \in Reqs |-> "none"]
  /\ sawJobs = [r \in Reqs |-> {}]
  /\ racedWith = [r \in Reqs |-> {}]
  /\ resp = [r \in Reqs |-> NoResp]
  /\ task = [r \in Reqs |-> NoTask]
  /\ posted = [r \in Reqs |-> NoPost]
  /\ cancelCount = -1
  /\ cancelResp = NoCancelResp
  /\ cancelReset = "none"

ServiceInit ==
  /\ supabase \in BOOLEAN
  /\ n8nRows = FALSE
  /\ activeJobs = [k \in {} |-> 0]
  /\ NoRequests

Init ==
  /\ ServiceInit
  /\ sched = NoSched /\ merge = NoMerge /\ audit = NoAudit /\ jobStatus = NoStatus /\ admit = NoAdmit

\* ------------------------------------------------------ admission guards
\* Faulty variant of Validate: the webhook guard before the identifier guard.
ValidateWebhookFirst(kind, ident, wh, st) ==
  IF ~wh THEN "config"
  ELSE IF ident = 0 THEN "invalid"
  ELSE IF kind = "start-qa" /\ supabase /\ st THEN "dupcheck"
  ELSE "busycheck"

\* The guards a handler evaluates before its first await, in source order.
Validate(kind, ident, wh, st) ==
  IF ident = 0 THEN "invalid"
  ELSE IF ~wh THEN "config"
  ELSE IF kind = "start-qa" /\ supabase /\ st THEN "dupcheck"
  ELSE "busycheck"

\* Faulty variant of Guard2: a lock per job key, activeJobs.has(jobKey).
Guard2PerKey(r) == jobKey(r) \in DOMAIN activeJobs

\* Guard 2, activeJobs.size > 0: any job of any kind and identifier blocks.
Guard2(r) == Cardinality(DOMAIN activeJobs) > 0

Reject(r, response) ==
  /\ pc' = [pc EXCEPT ![r] = "rejected"]
  /\ resp' = [resp EXCEPT ![r] = response]

\* const n8nStatus = await isN8nBusy(): the handler suspends
CallIsN8nBusy(r) ==
  /\ pc' = [pc EXCEPT ![r] = "awaitBusy"]
  /\ racedWith' = [q \in Reqs |->
                     IF q = r THEN {p \in Reqs \ {r} : pc[p] = "awaitBusy"}
                     ELSE IF pc[q] = "awaitBusy" THEN racedWith[q] \cup {r}
                     ELSE racedWith[q]]
  /\ UNCHANGED resp

\* A request arrives: the code up to the first await of the handler.
Receive(r, kind, ident, wh, st) ==
  /\ pc[r] = "new"
  /\ NoSync
  /\ \A q \in Reqs : q < r => pc[q] # "new"
  /\ req' = [req EXCEPT ![r] = [kind |-> kind, ident |-> ident, webhook |-> wh,
                                staging |-> st]]
  /\ LET v == Validate(kind, ident, wh, st) IN
       CASE v = "invalid" -> Reject(r, Resp400Invalid) /\ UNCHANGED racedWith
         [] v = "config" -> Reject(r, Resp400Config) /\ UNCHANGED racedWith
         [] v = "dupcheck" -> /\ pc' = [pc EXCEPT ![r] = "awaitDup"]
                              /\ UNCHANGED <<resp, racedWith>>
         [] OTHER -> CallIsN8nBusy(r)
  /\ UNCHANGED <<callVars, supabase, n8nRows, activeJobs, existing, n8nStatus, sawJobs, task,
                 posted, cancelCount, cancelResp, cancelReset>>

\* POST /start-qa
StartQa(r) ==
  \E ident \in Idents \cup {0}, wh \in BOOLEAN, st \in BOOLEAN :
    Receive(r, "start-qa", ident, wh, st)

\* POST /rerun: no staging_url, no duplicate guard
Rerun(r) ==
  \E ident \in Idents \cup {0}, wh \in BOOLEAN : Receive(r, "rerun", ident, wh, FALSE)

\* Guard 0 resumes: the projects query answered (a row, no row) or threw.
DuplicateCheck(r) ==
  /\ pc[r] = "awaitDup"
  /\ NoSync
  /\ \E outcome \in {"row", "empty", "throws"} :
       IF outcome = "row"
       THEN /\ existing' = [existing EXCEPT ![r] = "row"]
            /\ Reject(r, Resp409Duplicate)
            /\ UNCHANGED racedWith
       ELSE CallIsN8nBusy(r) /\ UNCHANGED existing
  /\ UNCHANGED <<callVars, supabase, n8nRows, activeJobs, req, n8nStatus, sawJobs,
                 task, posted, cancelCount, cancelResp, cancelReset>>

\* the entry an admission inserts: { type, stage: 'checking_links', totalPages:
\* (pages || []).length, checkedPages: 0, ... }
NewJob(kind, n, r) ==
  [type |-> kind, stage |-> "checking_links", totalPages |-> n, checkedPages |-> 0,
   owner |-> r]

\* activeJobs.set(jobKey, {...})
Register(r, n) ==
  /\ activeJobs' = [k \in DOMAIN activeJobs \cup {jobKey(r)} |->
                      IF k = jobKey(r) THEN NewJob(req[r].kind, n, r)
                      ELSE activeJobs[k]]
  /\ task' = [task EXCEPT ![r] = [NoTask EXCEPT !.pages = n]]
  /\ pc' = [pc EXCEPT ![r] = "registered"]
  /\ UNCHANGED <<resp, racedWith>>

\* Faulty variant of BusyCheck: the job is inserted before the guards are evaluated.
BusyCheckInsertsFirst(r) ==
  /\ pc[r] = "awaitBusy"
  /\ NoSync
  /\ \E outcome \in {"data", "error", "throws"}, n \in 0..MaxPages :
       LET status == isN8nBusy(outcome)
           inserted == [k \in DOMAIN activeJobs \cup {jobKey(r)} |->
                          IF k = jobKey(r) THEN NewJob(req[r].kind, n, r)
                          ELSE activeJobs[k]] IN
       /\ n8nStatus' = [n8nStatus EXCEPT ![r] = status]
       /\ IF status = "busy"
          THEN /\ Reject(r, Resp409N8n)
               /\ activeJobs' = inserted
               /\ UNCHANGED <<task, sawJobs, racedWith>>
          ELSE /\ sawJobs' = [sawJobs EXCEPT ![r] = Owners]
               /\ IF Guard2(r)
                  THEN /\ Reject(r, Resp409Busy(activeJobs[CHOOSE k \in DOMAIN activeJobs : TRUE]))
                       /\ activeJobs' = inserted
                       /\ UNCHANGED <<task, racedWith>>
                  ELSE Register(r, n)
  /\ UNCHANGED <<callVars, supabase, n8nRows, req, existing, posted, cancelCount,
                 cancelResp, cancelReset>>

\* Guard 1 resumes with the answer of isN8nBusy, then Guard 2 and the insert.
BusyCheck(r) ==
  /\ pc[r] = "awaitBusy"
  /\ NoSync
  /\ \E outcome \in {"data", "error", "throws"} :
       LET status == isN8nBusy(outcome) IN
       /\ n8nStatus' = [n8nStatus EXCEPT ![r] = status]
       /\ IF status = "busy"
          THEN Reject(r, Resp409N8n) /\ UNCHANGED <<activeJobs, task, sawJobs, racedWith>>
          ELSE /\ sawJobs' = [sawJobs EXCEPT ![r] = Owners]
               /\ IF Guard2(r)
                  THEN /\ Reject(r, Resp409Busy(activeJobs[CHOOSE k \in DOMAIN activeJobs : TRUE]))
                       /\ UNCHANGED <<activeJobs, task, racedWith>>
                  ELSE \E n \in 0..MaxPages : Register(r, n)
  /\ UNCHANGED <<callVars, supabase, n8nRows, req, existing, posted, cancelCount,
                 cancelResp, cancelReset>>

\* Faulty variant of Respond: the acknowledgment is not sent before the task starts.
RespondLate(r) ==
  /\ pc[r] = "registered"
  /\ pc' = [pc EXCEPT ![r] = "acked"]
  /\ racedWith' = [racedWith EXCEPT ![r] = {}]
  /\ UNCHANGED <<callVars, supabase, n8nRows, activeJobs, req, existing, n8nStatus, sawJobs,
                 resp, task, posted, cancelCount, cancelResp, cancelReset>>

\* res.json({ status: 'processing', ... })
Respond(r) ==
  /\ pc[r] = "registered"
  /\ pc' = [pc EXCEPT ![r] = "acked"]
  /\ resp' = [resp EXCEPT ![r] = RespProcessing]
  /\ racedWith' = [racedWith EXCEPT ![r] = {}]
  /\ UNCHANGED <<callVars, supabase, n8nRows, activeJobs, req, existing, n8nStatus, sawJobs,
                 task, posted, cancelCount, cancelResp, cancelReset>>

\* ------------------------------------------------------- background task
\* if (job) job.stage = ...
setStage(jobs, key, stage) ==
  IF key \in DOMAIN jobs THEN [jobs EXCEPT ![key].stage = stage] ELSE jobs

\* activeJobs.delete(jobKey)
delete(jobs, key) == [k \in DOMAIN jobs \ {key} |-> jobs[k]]

\* pagesWithLinkChecks when the link checks completed: /start-qa keeps every page
\* and attaches a report to the audited ones, /rerun keeps the audited pages only.
Enriched(r) ==
  IF req[r].kind = "start-qa"
  THEN [pages |-> task[r].pages, linkChecks |-> task[r].audited]
  ELSE [pages |-> task[r].audited, linkChecks |-> task[r].audited]

\* pagesWithLinkChecks when they did not: pages || [] for /start-qa, [] for /rerun
Unaudited(r) ==
  IF req[r].kind = "start-qa"
  THEN [pages |-> task[r].pages, linkChecks |-> 0]
  ELSE [pages |-> 0, linkChecks |-> 0]

\* Step 2 up to its await: stage 'forwarding_to_n8n', then axios.post is issued.
\* step1 tells how Step 1 ended: "skipped" (no page to audit), "checked", "threw".
Forward(r, jobs, payload, step1) ==
  /\ activeJobs' = setStage(jobs, jobKey(r), "forwarding_to_n8n")
  /\ posted' = [posted EXCEPT ![r] =
                  [path |-> IF req[r].kind = "start-qa" THEN "/qa/start" ELSE "/qa/rerun",
                   pages |-> payload.pages, linkChecks |-> payload.linkChecks,
                   step1 |-> step1, result |-> "pending"]]
  /\ task' = [task EXCEPT ![r] = NoTask]
  /\ pc' = [pc EXCEPT ![r] = "post"]

\* The loop of checkMultiplePages at offset i: the audits of the batch are started
\* and the task suspends in their Promise.all.  An empty batch (a negative
\* concurrency) resolves in the microtask queue, i moves further below 0 and every
\* later batch is empty too: the loop never ends and never lets the event loop run.
StartBatch(r, m, concurrency, i) ==
  /\ task' = [task EXCEPT ![r].audited = m, ![r].concurrency = concurrency, ![r].i = i,
                          ![r].started = task[r].started + Batch(m, i, concurrency)]
  /\ pc' = [pc EXCEPT ![r] = IF Batch(m, i, concurrency) > 0 THEN "chunk" ELSE "spin"]

\* The detached async function starts: Step 1 up to its first await.  m is
\* playwrightPages.length, the pages that carry a URL; with none of them (or with
\* pages.map throwing) the task goes straight to Step 2.
TaskStart(r) ==
  /\ pc[r] = "acked"
  /\ IF task[r].pages > 0
     THEN \E m \in 0..task[r].pages, s \in (-1)..MaxConcurrency :
            IF m > 0
            THEN /\ StartBatch(r, m, Concurrency(s), 0)
                 /\ UNCHANGED <<activeJobs, posted>>
            ELSE Forward(r, activeJobs, Unaudited(r), "skipped")
     ELSE Forward(r, activeJobs, Unaudited(r), "skipped")
  /\ UNCHANGED <<callVars, supabase, n8nRows, req, existing, n8nStatus, sawJobs, racedWith,
                 resp, cancelCount, cancelResp, cancelReset>>

\* Faulty variant of ChunkDone: the callback is invoked with the loop offset
\* i + concurrency, which can pass the number of pages.
ChunkDoneReportsOffset(r) ==
  /\ pc[r] = "chunk"
  /\ NoSync
  /\ LET next == task[r].i + task[r].concurrency
         jobs == onPageComplete(activeJobs, jobKey(r), next, task[r].audited) IN
       IF next < task[r].audited
       THEN /\ StartBatch(r, task[r].audited, task[r].concurrency, next)
            /\ activeJobs' = jobs
            /\ UNCHANGED posted
       ELSE Forward(r, jobs, Enriched(r), "checked")
  /\ UNCHANGED <<callVars, supabase, n8nRows, req, existing, n8nStatus, sawJobs, racedWith,
                 resp, cancelCount, cancelResp, cancelReset>>

\* checkMultiplePages: one chunk's Promise.all resolved.  The function takes
\* (pages, concurrency) only: the callback passed third is never invoked.
ChunkDone(r) ==
  /\ pc[r] = "chunk"
  /\ NoSync
  /\ LET next == task[r].i + task[r].concurrency IN
       IF next < task[r].audited
       THEN /\ StartBatch(r, task[r].audited, task[r].concurrency, next)
            /\ UNCHANGED <<activeJobs, posted>>
       ELSE Forward(r, activeJobs, Enriched(r), "checked")
  /\ UNCHANGED <<callVars, supabase, n8nRows, req, existing, n8nStatus, sawJobs, racedWith,
                 resp, cancelCount, cancelResp, cancelReset>>

\* Faulty variant of ChunkThrows: the exception reaches the outer catch.
ChunkThrowsEscapes(r) ==
  /\ pc[r] = "chunk"
  /\ NoSync
  /\ activeJobs' = delete(activeJobs, jobKey(r))
  /\ task' = [task EXCEPT ![r] = NoTask]
  /\ pc' = [pc EXCEPT ![r] = "done"]
  /\ UNCHANGED <<callVars, supabase, n8nRows, req, existing, n8nStatus, sawJobs, racedWith,
                 resp, posted, cancelCount, cancelResp, cancelReset>>

\* The link-check phase throws (the Promise.all of a chunk rejects): caught as
\* linkError, the run goes on to Step 2 with the page list of the fallback.
ChunkThrows(r) ==
  /\ pc[r] = "chunk"
  /\ NoSync
  /\ Forward(r, activeJobs, Unaudited(r), "threw")
  /\ UNCHANGED <<callVars, supabase, n8nRows, req, existing, n8nStatus, sawJobs, racedWith,
                 resp, cancelCount, cancelResp, cancelReset>>

\* Faulty variant of PostOk: the stage written after the POST is an earlier one.
PostOkBackward(r) ==
  /\ pc[r] = "post"
  /\ NoSync
  /\ activeJobs' = setStage(activeJobs, jobKey(r), "checking_links")
  /\ posted' = [posted EXCEPT ![r].result = "ok"]
  /\ pc' = [pc EXCEPT ![r] = "completed"]
  /\ UNCHANGED <<callVars, supabase, n8nRows, req, existing, n8nStatus, sawJobs, racedWith,
                 resp, task, cancelCount, cancelResp, cancelReset>>

\* axios.post resolved: stage 'completed'; finally follows in the same stretch.
PostOk(r) ==
  /\ pc[r] = "post"
  /\ NoSync
  /\ activeJobs' = setStage(activeJobs, jobKey(r), "completed")
  /\ posted' = [posted EXCEPT ![r].result = "ok"]
  /\ pc' = [pc EXCEPT ![r] = "completed"]
  /\ UNCHANGED <<callVars, supabase, n8nRows, req, existing, n8nStatus, sawJobs, racedWith,
                 resp, task, cancelCount, cancelResp, cancelReset>>

\* finally { activeJobs.delete(jobKey) } after a successful POST
Finally(r) ==
  /\ pc[r] = "completed"
  /\ activeJobs' = delete(activeJobs, jobKey(r))
  /\ pc' = [pc EXCEPT ![r] = "done"]
  /\ UNCHANGED <<callVars, supabase, n8nRows, req, existing, n8nStatus, sawJobs, racedWith,
                 resp, task, posted, cancelCount, cancelResp, cancelReset>>

\* Faulty variant of PostFail: the error leaves the task without the cleanup.
PostFailEscapes(r) ==
  /\ pc[r] = "post"
  /\ NoSync
  /\ posted' = [posted EXCEPT ![r].result = "failed"]
  /\ pc' = [pc EXCEPT ![r] = "done"]
  /\ UNCHANGED <<callVars, supabase, n8nRows, activeJobs, req, existing, n8nStatus, sawJobs,
                 racedWith, resp, task, cancelCount, cancelResp, cancelReset>>

\* axios.post rejected (network error, timeout, status >= 300): catch, then finally
PostFail(r) ==
  /\ pc[r] = "post"
  /\ NoSync
  /\ activeJobs' = delete(activeJobs, jobKey(r))
  /\ posted' = [posted EXCEPT ![r].result = "failed"]
  /\ pc' = [pc EXCEPT ![r] = "done"]
  /\ UNCHANGED <<callVars, supabase, n8nRows, req, existing, n8nStatus, sawJobs, racedWith,
                 resp, task, cancelCount, cancelResp, cancelReset>>

\* ------------------------------------------------------------ other steps
\* Faulty variant of CancelJob: the count is taken after the registry is cleared.
CancelJobCountsAfter ==
  /\ NoSync
  /\ cancelCount = -1
  /\ activeJobs' = [k \in {} |-> 0]
  /\ cancelCount' = Cardinality(DOMAIN activeJobs')
  /\ cancelResp' = IF supabase THEN NoCancelResp ELSE CancelSuccess(cancelCount')
  /\ cancelReset' = IF supabase THEN "none" ELSE "skipped"
  /\ UNCHANGED <<callVars, supabase, n8nRows, pc, req, existing, n8nStatus, sawJobs,
                 racedWith, resp, task, posted>>

\* POST /cancel-job up to its await: jobCount = activeJobs.size, activeJobs.clear();
\* with a Supabase client the handler suspends in the update of the pages table,
\* without one it answers at once.
CancelJob ==
  /\ NoSync
  /\ cancelCount = -1
  /\ cancelCount' = Cardinality(DOMAIN activeJobs)
  /\ activeJobs' = [k \in {} |-> 0]
  /\ cancelResp' = IF supabase THEN NoCancelResp ELSE CancelSuccess(cancelCount')
  /\ cancelReset' = IF supabase THEN "none" ELSE "skipped"
  /\ UNCHANGED <<callVars, supabase, n8nRows, pc, req, existing, n8nStatus, sawJobs,
                 racedWith, resp, task, posted>>

\* /cancel-job resumes: the update answered with data (the rows are reset) or with
\* an error (logged), and the handler answers success; or it threw, and the catch
\* answers 500.
CancelRespond ==
  /\ NoSync
  /\ cancelCount # -1
  /\ \E outcome \in {"data", "error", "throws"} :
       /\ n8nRows' = IF outcome = "data" THEN FALSE ELSE n8nRows
       /\ cancelReset' = outcome
       /\ cancelResp' = IF outcome = "throws" THEN CancelFailed
                         ELSE CancelSuccess(cancelCount)
  /\ UNCHANGED <<callVars, supabase, activeJobs, pc, req, existing, n8nStatus, sawJobs,
                 racedWith, resp, task, posted, cancelCount>>

\* The /cancel-job exchange is over and is put away.
ForgetCancel ==
  /\ cancelResp # NoCancelResp
  /\ cancelCount' = -1
  /\ cancelResp' = NoCancelResp
  /\ cancelReset' = "none"
  /\ UNCHANGED <<callVars, supabase, n8nRows, activeJobs, pc, req, existing, n8nStatus,
                 sawJobs, racedWith, resp, task, posted>>

\* The external workflow marks pages in progress in the store, or finishes them.
N8nWorkflow ==
  /\ NoSync
  /\ supabase
  /\ n8nRows' = ~n8nRows
  /\ UNCHANGED <<callVars, supabase, activeJobs, pc, req, existing, n8nStatus, sawJobs,
                 racedWith, resp, task, posted, cancelCount, cancelResp, cancelReset>>

\* The exchange is over and is put away: its slot serves the next request.
Forget(r) ==
  /\ Finished(r)
  /\ pc' = [pc EXCEPT ![r] = "new"]
  /\ req' = [req EXCEPT ![r] = NoReq]
  /\ existing' = [existing EXCEPT ![r] = "none"]
  /\ n8nStatus' = [n8nStatus EXCEPT ![r] = "none"]
  /\ sawJobs' = [q \in Reqs |-> IF q = r THEN {} ELSE sawJobs[q] \ {r}]
  /\ racedWith' = [q \in Reqs |-> IF q = r THEN {} ELSE racedWith[q] \ {r}]
  /\ resp' = [resp EXCEPT ![r] = NoResp]
  /\ task' = [task EXCEPT ![r] = NoTask]
  /\ posted' = [posted EXCEPT ![r] = NoPost]
  /\ UNCHANGED <<callVars, supabase, n8nRows, activeJobs, cancelCount, cancelResp, cancelReset>>

TaskStep(r) ==
  \/ Respond(r)
  \/ TaskStart(r)
  \/ ChunkDone(r)
  \/ ChunkThrows(r)
  \/ PostOk(r)
  \/ PostFail(r)
  \/ Finally(r)

Next ==
  \/ \E r \in Reqs : StartQa(r)
  \/ \E r \in Reqs : Rerun(r)
  \/ \E r \in Reqs : DuplicateCheck(r)
  \/ \E r \in Reqs : BusyCheck(r)
  \/ \E r \in Reqs : Respond(r)
  \/ \E r \in Reqs : TaskStart(r)
  \/ \E r \in Reqs : ChunkDone(r)
  \/ \E r \in Reqs : ChunkThrows(r)
  \/ \E r \in Reqs : PostOk(r)
  \/ \E r \in Reqs : PostFail(r)
  \/ \E r \in Reqs : Finally(r)
  \/ \E r \in Reqs : Forget(r)
  \/ CancelJob
  \/ CancelRespond
  \/ ForgetCancel
  \/ N8nWorkflow

Spec == Init /\ [][Next]_vars

\* The event loop runs every continuation that is ready, and each audit and the
\* POST are assumed to terminate.
FairSpec ==
  /\ Spec
  /\ \A r \in Reqs : SF_vars(TaskStep(r)) /\ WF_vars(Forget(r))
  /\ WF_vars(ForgetCancel)

\* ================================================= checkMultiplePages
\* The page objects the callers build: { url, pageName }.
SchedPage == {[url |-> "u1", pageName |-> "A"], [url |-> "u2", pageName |-> "B"],
              [url |-> "u1", pageName |-> "B"]}

SeqsUpTo(S, n) == UNION {[1..k -> S] : k \in 0..n}

Ceil(a, b) == (a + b - 1) \div b

\* The batch that starts at offset i, pages.slice(i, i + concurrency), as the set of
\* its positions in pages (counted from 1).
BatchAt(pages, i, concurrency) == {k \in 1..Len(pages) : i < k /\ k <= i + concurrency}

\* The function is called: results = [], i = 0, and the loop head.  The audits of
\* the first batch are started by batch.map and the call suspends in Promise.all.
\* onPageComplete is a third argument the function does not declare.
SchedInit ==
  /\ ServiceInit /\ ~supabase
  /\ merge = NoMerge /\ audit = NoAudit /\ jobStatus = NoStatus /\ admit = NoAdmit
  /\ \E pages \in SeqsUpTo(SchedPage, MaxSchedPages), concurrency \in 1..MaxWidth :
       sched = [pc |-> IF Len(pages) > 0 THEN "await" ELSE "returned",
                pages |-> pages, concurrency |-> concurrency, i |-> 0,
                inflight |-> BatchAt(pages, 0, concurrency),
                order |-> <<>>, settled |-> <<>>,
                results |-> <<>>, calls |-> <<>>]

\* { url: page.url, pageName: page.pageName, linkChecks } of the audit of position k;
\* the report is named after the audit that produced it.
SchedResult(k) ==
  [url |-> sched.pages[k].url, pageName |-> sched.pages[k].pageName,
   linkChecks |-> [auditOf |-> k]]

\* Faulty variant of BatchResults: the results in the order the audits finished.
BatchResultsAsFinished(order) == [n \in 1..Len(order) |-> SchedResult(order[n])]

\* Promise.all resolves with the values in the order of batch, whatever order the
\* audits finished in (order lists the positions as they finished; settled keeps
\* that order for the batches that are over).
BatchResults(order) ==
  [n \in 1..Len(order) |-> SchedResult(sched.i + n)]

\* Faulty variant of AuditReturns: a pool, the next page starts when an audit returns.
AuditReturnsRefills(k) ==
  /\ sched.pc = "await"
  /\ k \in sched.inflight /\ sched.inflight # {k}
  /\ LET started == Len(sched.settled) + Len(sched.order) + Cardinality(sched.inflight)
         refill == IF started < Len(sched.pages) THEN {started + 1} ELSE {} IN
       sched' = [sched EXCEPT !.inflight = (@ \ {k}) \cup refill, !.order = Append(@, k)]
  /\ UNCHANGED <<serviceVars, merge, audit, jobStatus, admit>>

\* The audit of position k returns and others of its batch are still running.
AuditReturns(k) ==
  /\ sched.pc = "await"
  /\ k \in sched.inflight /\ sched.inflight # {k}
  /\ sched' = [sched EXCEPT !.inflight = @ \ {k}, !.order = Append(@, k)]
  /\ UNCHANGED <<serviceVars, merge, audit, jobStatus, admit>>

\* The last audit of the batch returns: Promise.all resolves, the batch's results
\* are pushed, i += concurrency, and the loop starts the next batch or returns.
BatchDone(k) ==
  /\ sched.pc = "await"
  /\ sched.inflight = {k}
  /\ LET order == Append(sched.order, k)
         next == sched.i + sched.concurrency IN
       sched' = [sched EXCEPT
                   !.results = @ \o BatchResults(order),
                   !.i = next,
                   !.settled = @ \o order,
                   !.order = <<>>,
                   !.inflight = BatchAt(sched.pages, next, sched.concurrency),
                   !.pc = IF next < Len(sched.pages) THEN "await" ELSE "returned"]
  /\ UNCHANGED <<serviceVars, merge, audit, jobStatus, admit>>

\* An audit rejects (checkPageLinks catches its errors; its catch block can throw
\* in browser.close()): Promise.all rejects and the call throws.
AuditRejects(k) ==
  /\ sched.pc = "await"
  /\ k \in sched.inflight
  /\ sched' = [sched EXCEPT !.pc = "threw"]
  /\ UNCHANGED <<serviceVars, merge, audit, jobStatus, admit>>

SchedNext ==
  \/ \E k \in 1..MaxSchedPages : AuditReturns(k)
  \/ \E k \in 1..MaxSchedPages : BatchDone(k)
  \/ \E k \in 1..MaxSchedPages : AuditRejects(k)

SchedSpec == SchedInit /\ [][SchedNext]_vars

\* ===================================================== the enrich step
\* A page URL is a string over a letter and the slash; the empty string stands for
\* a page without page_url and pageUrl too (both are falsy).
Url == SeqsUpTo({"a", "/"}, MaxUrlLen)

\* link_checks of an entry: none (the fallback list carries no such field), null,
\* or the report of the audit of playwrightPages[n]
Absent == [auditOf |-> -1]
Null == [auditOf |-> 0]
ReportOf(n) == [auditOf |-> n]

\* u.replace(/\/+$/, '')
RECURSIVE Strip(_)
Strip(u) ==
  IF Len(u) > 0 /\ u[Len(u)] = "/" THEN Strip(SubSeq(u, 1, Len(u) - 1)) ELSE u

\* (p.page_url || p.pageUrl || '').replace(/\/+$/, '')
PageUrlOf(p) == Strip(p.url)

\* Faulty variant of ResultUrlOf: the result's URL is compared as it is.
ResultUrlRaw(l) == l.url

\* (l.url || '').replace(/\/+$/, '')
ResultUrlOf(l) == Strip(l.url)

\* pages.map(p => ({ url: p.page_url || p.pageUrl, ... })).filter(p => p.url)
playwrightPages(pages) == SelectSeq(pages, LAMBDA p : p.url # <<>>)

\* What checkMultiplePages returns for them: result n has the URL of
\* playwrightPages[n] and the report of its audit.
linkResults(pages) ==
  [n \in 1..Len(playwrightPages(pages)) |->
     [url |-> playwrightPages(pages)[n].url, linkChecks |-> ReportOf(n)]]

\* linkResults.find(l => ... === pageUrl): the index of the first match, 0 for none
Find(results, pageUrl) ==
  IF \E n \in 1..Len(results) : ResultUrlOf(results[n]) = pageUrl
  THEN CHOOSE n \in 1..Len(results) :
         /\ ResultUrlOf(results[n]) = pageUrl
         /\ \A m \in 1..(n - 1) : ResultUrlOf(results[m]) # pageUrl
  ELSE 0

\* lr?.linkChecks || null
LinkChecksOf(results, p) ==
  IF Find(results, PageUrlOf(p)) = 0 THEN Null
  ELSE results[Find(results, PageUrlOf(p))].linkChecks

\* Faulty variant of EnrichPages: /rerun keeps the pages without a report too.
EnrichPagesKeepsAll(kind, pages, results) ==
  [k \in 1..Len(pages) |->
     [name |-> pages[k].name, url |-> pages[k].url,
      link_checks |-> LinkChecksOf(results, pages[k])]]

\* pagesWithLinkChecks = pages.map(p => ({ ..., link_checks: lr?.linkChecks || null }))
\* and, in /rerun only, .filter(p => p.link_checks != null)
EnrichPages(kind, pages, results) ==
  LET mapped == [k \in 1..Len(pages) |->
                   [name |-> pages[k].name, url |-> pages[k].url,
                    link_checks |-> LinkChecksOf(results, pages[k])]] IN
  IF kind = "rerun" THEN SelectSeq(mapped, LAMBDA e : e.link_checks # Null) ELSE mapped

\* let pagesWithLinkChecks = pages || [] in /start-qa, = [] in /rerun
Fallback(kind, pages) ==
  IF kind = "rerun" THEN <<>>
  ELSE [k \in 1..Len(pages) |->
          [name |-> pages[k].name, url |-> pages[k].url, link_checks |-> Absent]]

\* Step 1 of a background task starts with the request's pages.
MergeInit ==
  /\ ServiceInit /\ ~supabase
  /\ sched = NoSched /\ audit = NoAudit /\ jobStatus = NoStatus /\ admit = NoAdmit
  /\ \E kind \in Kinds, urls \in SeqsUpTo(Url, MaxMergePages) :
       LET pages == [k \in 1..Len(urls) |-> [name |-> k, url |-> urls[k]]] IN
       merge = [pc |-> "start", kind |-> kind, pages |-> pages, results |-> <<>>,
                pagesWithLinkChecks |-> Fallback(kind, pages)]

\* Step 1 up to its await: with a page that has a URL, checkMultiplePages is called.
MergeCall ==
  /\ merge.pc = "start"
  /\ merge' = [merge EXCEPT !.pc = IF Len(playwrightPages(merge.pages)) > 0
                                   THEN "await" ELSE "forward"]
  /\ UNCHANGED <<serviceVars, sched, audit, jobStatus, admit>>

\* checkMultiplePages returned: the pages are enriched, and Step 2 follows.
MergeChecked ==
  /\ merge.pc = "await"
  /\ merge' = [merge EXCEPT
                 !.pc = "forward",
                 !.results = linkResults(merge.pages),
                 !.pagesWithLinkChecks =
                    EnrichPages(merge.kind, merge.pages, linkResults(merge.pages))]
  /\ UNCHANGED <<serviceVars, sched, audit, jobStatus, admit>>

\* checkMultiplePages threw: linkError is logged, and Step 2 follows.
MergeThrew ==
  /\ merge.pc = "await"
  /\ merge' = [merge EXCEPT !.pc = "forward"]
  /\ UNCHANGED <<serviceVars, sched, audit, jobStatus, admit>>

MergeNext == MergeCall \/ MergeChecked \/ MergeThrew

MergeSpec == MergeInit /\ [][MergeNext]_vars

\* ======================================================= checkPageLinks
\* The audited page is https://site.test/...; an anchor's href is an absolute URL
\* (a.href): its scheme, its hostname as the sequence of its labels (none when the
\* URL has no parsable host, "https://"), and a number for the rest of it.
PageScheme == "https"
PageHost == <<"site", "test">>
Href == {[scheme |-> "https", host |-> <<"site", "test">>, path |-> 1],
         [scheme |-> "https", host |-> <<"notx", "com">>, path |-> 1],
         [scheme |-> "https", host |-> <<"x", "com">>, path |-> 1],
         [scheme |-> "https", host |-> <<"m", "x", "com">>, path |-> 1],
         [scheme |-> "https", host |-> <<>>, path |-> 1],
         [scheme |-> "mailto", host |-> <<>>, path |-> 1]}
Rel == {"", "noopener", "noopener noreferrer"}
Anchor == [href : Href, rel : Rel]

\* A page with n anchors of n different hrefs, on the hosts odd and even in turn.
LongPage(n, odd, even, rel) ==
  [k \in 1..n |->
     [href |-> [scheme |-> "https", host |-> IF k % 2 = 1 THEN odd ELSE even, path |-> k],
      rel |-> rel]]

\* What a HEAD or GET request comes to: the final status, 0 for no response at all
\* (network error, timeout).
Outcome == {0, 200, 404, 500}
NotTried == [tried |-> FALSE, outcome |-> 0]
Tried(o) == [tried |-> TRUE, outcome |-> o]

\* the answers the network gives during the audit of a long page: one for all
LongNet == {{0}, {200}, {404}}

\* axios rejects without a response and when validateStatus, status < 500, is false
Rejects(o) == o = 0 \/ ~(o < 500)

isCheckableLink(href) == href.scheme \in {"http", "https"}

\* new URL(href) does not throw
isValidUrl(href) == href.host # <<>>

socialMediaDomains ==
  {<<"instagram", "com">>, <<"www", "instagram", "com">>,
   <<"facebook", "com">>, <<"www", "facebook", "com">>, <<"fb", "com">>,
   <<"twitter", "com">>, <<"www", "twitter", "com">>,
   <<"x", "com">>, <<"www", "x", "com">>,
   <<"linkedin", "com">>, <<"www", "linkedin", "com">>,
   <<"tiktok", "com">>, <<"www", "tiktok", "com">>,
   <<"pinterest", "com">>, <<"www", "pinterest", "com">>,
   <<"snapchat", "com">>, <<"www", "snapchat", "com">>,
   <<"youtube", "com">>, <<"www", "youtube", "com">>, <<"youtu", "be">>,
   <<"reddit", "com">>, <<"www", "reddit", "com">>,
   <<"tumblr", "com">>, <<"www", "tumblr", "com">>,
   <<"discord", "com">>, <<"discord", "gg">>,
   <<"threads", "net">>, <<"www", "threads", "net">>}

\* hostname.endsWith('.' + domain)
EndsWithDot(hostname, domain) ==
  /\ Len(hostname) > Len(domain)
  /\ SubSeq(hostname, Len(hostname) - Len(domain) + 1, Len(hostname)) = domain

\* Faulty variant of isSocialMediaLink: the listed hostnames only, no subdomains.
isSocialMediaLinkExact(href) ==
  isValidUrl(href) /\ href.host \in socialMediaDomains

\* new URL(href).hostname is a listed domain or a subdomain of one; false when
\* new URL throws
isSocialMediaLink(href) ==
  /\ isValidUrl(href)
  /\ \E domain \in socialMediaDomains :
       href.host = domain \/ EndsWithDot(href.host, domain)

\* linkUrl.origin !== baseUrl.origin
isExternal(href) == <<href.scheme, href.host>> # <<PageScheme, PageHost>>

hasNoopener(rel) == rel \in {"noopener", "noopener noreferrer"}

\* Faulty variant of hasNoreferrer: noopener alone passes for both attributes.
hasNoreferrerLax(rel) == rel \in {"noopener", "noopener noreferrer"}

\* link.rel.includes('noreferrer')
hasNoreferrer(rel) == rel \in {"noopener noreferrer"}

\* Faulty variant of Cap: the whole list.
CapNone(seq) == seq

\* seq.slice(0, 10)
Cap(seq) == SubSeq(seq, 1, Min(Len(seq), ListCap))

\* the return value of the catch block
ErrorReport ==
  [overall |-> "ERROR", externalLinks |-> 0, internalLinks |-> 0, totalLinks |-> 0,
   brokenLinks |-> <<>>, brokenCount |-> 0,
   brokenExternalLinks |-> <<>>, brokenExternalCount |-> 0,
   brokenInternalLinks |-> <<>>, brokenInternalCount |-> 0,
   missingNoopener |-> 0, linksWithoutNoopener |-> <<>>,
   securityIssue |-> FALSE, issue |-> <<"Error checking page">>]

\* Faulty variant of Overall: the missing security attributes do not count.
OverallBrokenOnly(allBrokenLinks, missingNoopener) ==
  IF Len(allBrokenLinks) > 0 THEN "FAIL" ELSE "PASS"

\* allBrokenLinks.length > 0 || missingNoopener > 0 ? 'FAIL' : 'PASS'
Overall(allBrokenLinks, missingNoopener) ==
  IF Len(allBrokenLinks) > 0 \/ missingNoopener > 0 THEN "FAIL" ELSE "PASS"

\* Faulty variant of Issue: the broken external links come first.
IssueExternalFirst(a) ==
  (IF Len(a.brokenLinks) > 0
   THEN <<[count |-> Len(a.brokenLinks), what |-> "broken external"]>> ELSE <<>>)
  \o (IF Len(a.brokenInternalLinks) > 0
      THEN <<[count |-> Len(a.brokenInternalLinks), what |-> "broken internal"]>> ELSE <<>>)
  \o (IF a.missingNoopener > 0
      THEN <<[count |-> a.missingNoopener, what |-> "missing noopener/noreferrer"]>> ELSE <<>>)

\* the issue text: its parts in the order they are pushed, <<>> for null
Issue(a) ==
  (IF Len(a.brokenInternalLinks) > 0
   THEN <<[count |-> Len(a.brokenInternalLinks), what |-> "broken internal"]>> ELSE <<>>)
  \o (IF Len(a.brokenLinks) > 0
      THEN <<[count |-> Len(a.brokenLinks), what |-> "broken external"]>> ELSE <<>>)
  \o (IF a.missingNoopener > 0
      THEN <<[count |-> a.missingNoopener, what |-> "missing noopener/noreferrer"]>> ELSE <<>>)

\* the return value of the try block
Report(a) ==
  LET allBrokenLinks == a.brokenLinks \o a.brokenInternalLinks IN
  [overall |-> Overall(allBrokenLinks, a.missingNoopener),
   externalLinks |-> a.externalLinks, internalLinks |-> a.internalLinks,
   totalLinks |-> Len(a.links),
   brokenLinks |-> Cap(allBrokenLinks), brokenCount |-> Len(allBrokenLinks),
   brokenExternalLinks |-> Cap(a.brokenLinks), brokenExternalCount |-> Len(a.brokenLinks),
   brokenInternalLinks |-> Cap(a.brokenInternalLinks),
   brokenInternalCount |-> Len(a.brokenInternalLinks),
   missingNoopener |-> a.missingNoopener,
   linksWithoutNoopener |-> Cap(a.linksWithoutNoopener),
   securityIssue |-> a.missingNoopener > 0, issue |-> Issue(a)]

NoReport == [overall |-> ""]

\* The pages followed: every short anchor list, with a network that may answer
\* each request in any way, and the long pages, with more hrefs than a list of
\* the report keeps.
AuditInput ==
  [links : SeqsUpTo(Anchor, MaxLinks), net : {Outcome}]
  \cup {[links |-> LongPage(n, odd, even, rel), net |-> net] :
          n \in (ListCap + 1)..MaxLongLinks,
          odd \in {PageHost, <<"notx", "com">>}, even \in {PageHost, <<"notx", "com">>},
          rel \in Rel, net \in LongNet}

\* checkPageLinks(pageUrl) is called for a page with the anchors links.
AuditInit ==
  /\ ServiceInit /\ ~supabase
  /\ sched = NoSched /\ merge = NoMerge /\ jobStatus = NoStatus /\ admit = NoAdmit
  /\ \E page \in AuditInput :
       audit = [pc |-> "launch", links |-> page.links, net |-> page.net,
                browser |-> "none", loaded |-> FALSE,
                n |-> 1, checkedUrls |-> {}, head |-> NotTried, log |-> <<>>,
                brokenLinks |-> <<>>, brokenInternalLinks |-> <<>>,
                linksWithoutNoopener |-> <<>>, externalLinks |-> 0, internalLinks |-> 0,
                missingNoopener |-> 0, report |-> NoReport]

\* Faulty variant of Catch: the ERROR report is returned without closing the browser.
CatchLeavesOpen(a, closeOk) ==
  audit' = [a EXCEPT !.pc = "returned", !.report = ErrorReport]

\* The catch block: close the browser if there is one, return the ERROR report.
\* browser.close() is awaited outside any try: when it throws, the call rejects.
Catch(a, closeOk) ==
  IF a.browser = "none"
  THEN audit' = [a EXCEPT !.pc = "returned", !.report = ErrorReport]
  ELSE IF closeOk
  THEN audit' = [a EXCEPT !.pc = "returned", !.report = ErrorReport, !.browser = "closed"]
  ELSE audit' = [a EXCEPT !.pc = "rejected"]

\* chromium.launch
Launch ==
  /\ audit.pc = "launch"
  /\ \E ok \in BOOLEAN :
       IF ok THEN audit' = [audit EXCEPT !.pc = "load", !.browser = "open"]
       ELSE Catch(audit, TRUE)
  /\ UNCHANGED <<serviceVars, sched, merge, jobStatus, admit>>

\* newContext, newPage, page.goto, waitForTimeout, page.$$eval('a[href]', ...)
Load ==
  /\ audit.pc = "load"
  /\ \E ok \in BOOLEAN, closeOk \in BOOLEAN :
       IF ok THEN audit' = [audit EXCEPT !.pc = "loop", !.loaded = TRUE]
       ELSE Catch(audit, closeOk)
  /\ UNCHANGED <<serviceVars, sched, merge, jobStatus, admit>>

\* the link of the loop's current iteration
Link == audit.links[audit.n]

\* Faulty variant of alreadyChecked: no href is remembered.
alreadyCheckedNever(a, href) == FALSE

\* checkedUrls.has(link.href)
alreadyChecked(a, href) == href \in a.checkedUrls

\* One iteration of the loop up to its await, or to its continue: skip what is not
\* checkable or was checked before, skip what new URL throws on (the iteration's
\* catch), count the link, note the missing security attributes of an external
\* link, skip the liveness request of a social media link, issue the HEAD request
\* otherwise.
Visit ==
  /\ audit.pc = "loop"
  /\ audit.n <= Len(audit.links)
  /\ IF ~isCheckableLink(Link.href) \/ alreadyChecked(audit, Link.href)
     THEN audit' = [audit EXCEPT !.n = @ + 1]
     ELSE LET missing == isExternal(Link.href)
                         /\ (~hasNoopener(Link.rel) \/ ~hasNoreferrer(Link.rel))
              counted ==
                [audit EXCEPT
                   !.checkedUrls = @ \cup {Link.href},
                   !.externalLinks = IF isExternal(Link.href) THEN @ + 1 ELSE @,
                   !.internalLinks = IF isExternal(Link.href) THEN @ ELSE @ + 1,
                   !.missingNoopener = IF missing THEN @ + 1 ELSE @,
                   !.linksWithoutNoopener = IF missing THEN Append(@, Link.href) ELSE @]
          IN IF ~isValidUrl(Link.href)
             THEN audit' = [audit EXCEPT !.checkedUrls = @ \cup {Link.href}, !.n = @ + 1]
             ELSE IF isExternal(Link.href) /\ isSocialMediaLink(Link.href)
             THEN audit' = [counted EXCEPT !.n = @ + 1]
             ELSE audit' = [counted EXCEPT !.pc = "head"]
  /\ UNCHANGED <<serviceVars, sched, merge, jobStatus, admit>>

\* the link is recorded as broken, in the list of its kind
Broken(a, href) ==
  IF isExternal(href) THEN [a EXCEPT !.brokenLinks = Append(@, href)]
  ELSE [a EXCEPT !.brokenInternalLinks = Append(@, href)]

\* the iteration is over: what was requested and found is logged
Checked(a, head, get, broken) ==
  [(IF broken THEN Broken(a, a.links[a.n].href) ELSE a) EXCEPT
     !.pc = "loop", !.n = @ + 1, !.head = NotTried,
     !.log = Append(@, [href |-> a.links[a.n].href, head |-> head, get |-> get,
                        broken |-> broken])]

\* axios.head answers: a status of 400 or more makes the link broken, a lower one
\* closes the iteration, a rejection leads to the GET request.
HeadReturns ==
  /\ audit.pc = "head"
  /\ \E o \in audit.net :
       IF Rejects(o)
       THEN audit' = [audit EXCEPT !.pc = "get", !.head = Tried(o)]
       ELSE audit' = Checked(audit, Tried(o), NotTried, o >= 400)
  /\ UNCHANGED <<serviceVars, sched, merge, jobStatus, admit>>

\* Faulty variant of GetReturns: a rejection of the GET request reaches the catch
\* block of the audit.
GetReturnsPropagates ==
  /\ audit.pc = "get"
  /\ \E o \in audit.net :
       IF Rejects(o) THEN Catch(audit, TRUE)
       ELSE audit' = Checked(audit, audit.head, Tried(o),
                             ~isExternal(Link.href) /\ o >= 400)
  /\ UNCHANGED <<serviceVars, sched, merge, jobStatus, admit>>

\* axios.get answers: a rejection makes the link broken; the status of a response
\* is looked at for an internal link only.
GetReturns ==
  /\ audit.pc = "get"
  /\ \E o \in audit.net :
       audit' = Checked(audit, audit.head, Tried(o),
                        Rejects(o) \/ (~isExternal(Link.href) /\ o >= 400))
  /\ UNCHANGED <<serviceVars, sched, merge, jobStatus, admit>>

\* After the loop: await browser.close(), inside the try, then the report.
Close ==
  /\ audit.pc = "loop"
  /\ audit.n > Len(audit.links)
  /\ \E ok \in BOOLEAN, closeOk \in BOOLEAN :
       IF ok
       THEN audit' = [audit EXCEPT !.pc = "returned", !.browser = "closed",
                                   !.report = Report(audit)]
       ELSE Catch(audit, closeOk)
  /\ UNCHANGED <<serviceVars, sched, merge, jobStatus, admit>>

AuditNext == Launch \/ Load \/ Visit \/ HeadReturns \/ GetReturns \/ Close

AuditSpec == AuditInit /\ [][AuditNext]_vars

\* ======================================================== GET /job-status
\* req.query: project_name and project_id, 0 for a parameter that is not given
StatusQuery == [name : 0..NumIdents, id : 0..NumIdents]

Stages == {"checking_links", "forwarding_to_n8n", "completed"}

\* The registry as the handler may find it: empty, or with the entry of one run as
\* its admission inserted it and its task has updated it since.  The runs themselves
\* are not followed here.
StatusRegistry ==
  {[k \in {} |-> 0]} \cup
  {[k \in {<<e.kind, e.ident>>} |->
      [type |-> e.kind, stage |-> e.stage, totalPages |-> e.totalPages,
       checkedPages |-> e.checkedPages, owner |-> 1]] :
     e \in {x \in [kind : Kinds, ident : Idents, stage : Stages,
                   totalPages : 0..MaxPages, checkedPages : 0..MaxPages] :
              x.checkedPages <= x.totalPages}}

\* the handler's answers: none yet, the 400, a registry entry, the synthetic
\* n8n_processing record (its page counts are null, here -1), { found: false }
NoStatusResp ==
  [status |-> 0, found |-> FALSE, type |-> "", stage |-> "",
   totalPages |-> -1, checkedPages |-> -1]
Status400 == [NoStatusResp EXCEPT !.status = 400]
StatusFound(job) ==
  [status |-> 200, found |-> TRUE, type |-> job.type, stage |-> job.stage,
   totalPages |-> job.totalPages, checkedPages |-> job.checkedPages]
StatusN8n ==
  [status |-> 200, found |-> TRUE, type |-> "n8n_processing", stage |-> "n8n_workflow",
   totalPages |-> -1, checkedPages |-> -1]
StatusNotFound == [NoStatusResp EXCEPT !.status = 200]

\* value.projectName of the entry at key k: only /start-qa sets it, to the name in
\* its key; 0 for undefined
ProjectNameOf(jobs, k) == IF jobs[k].type = "start-qa" THEN k[2] ELSE 0

NoKey == <<"", 0>>

\* Faulty variant of Lookup: only the start-qa key is looked up.
LookupByNameOnly(jobs, name, id) ==
  IF name # 0 /\ <<"start-qa", name>> \in DOMAIN jobs THEN <<"start-qa", name>>
  ELSE NoKey

\* The key of the job the handler settles on: start-qa:<project_name>, else
\* rerun:<project_id>, else the first entry whose projectName is project_name.
Lookup(jobs, name, id) ==
  IF name # 0 /\ <<"start-qa", name>> \in DOMAIN jobs THEN <<"start-qa", name>>
  ELSE IF id # 0 /\ <<"rerun", id>> \in DOMAIN jobs THEN <<"rerun", id>>
  ELSE IF name # 0 /\ \E k \in DOMAIN jobs : ProjectNameOf(jobs, k) = name
  THEN CHOOSE k \in DOMAIN jobs : ProjectNameOf(jobs, k) = name
  ELSE NoKey

StatusInit ==
  /\ supabase \in BOOLEAN
  /\ n8nRows \in (IF supabase THEN BOOLEAN ELSE {FALSE})
  /\ activeJobs \in StatusRegistry
  /\ NoRequests
  /\ sched = NoSched /\ merge = NoMerge /\ audit = NoAudit /\ admit = NoAdmit
  /\ \E query \in StatusQuery :
       jobStatus = [pc |-> "new", query |-> query, n8nStatus |-> "none",
                 resp |-> NoStatusResp]

\* The handler up to its await or its answer: the 400 without a parameter, the
\* entry found, or the call of isN8nBusy.
StatusLookup ==
  /\ jobStatus.pc = "new"
  /\ LET name == jobStatus.query.name
         id == jobStatus.query.id
         key == Lookup(activeJobs, name, id) IN
       IF name = 0 /\ id = 0
       THEN jobStatus' = [jobStatus EXCEPT !.pc = "answered", !.resp = Status400]
       ELSE IF key # NoKey
       THEN jobStatus' = [jobStatus EXCEPT !.pc = "answered",
                                     !.resp = StatusFound(activeJobs[key])]
       ELSE jobStatus' = [jobStatus EXCEPT !.pc = "awaitBusy"]
  /\ UNCHANGED <<serviceVars, sched, merge, audit, admit>>

\* isN8nBusy answers: the synthetic record when busy, { found: false } otherwise.
StatusBusyCheck ==
  /\ jobStatus.pc = "awaitBusy"
  /\ \E outcome \in {"data", "error", "throws"} :
       jobStatus' = [jobStatus EXCEPT
                    !.pc = "answered",
                    !.n8nStatus = isN8nBusy(outcome),
                    !.resp = IF isN8nBusy(outcome) = "busy" THEN StatusN8n
                             ELSE StatusNotFound]
  /\ UNCHANGED <<serviceVars, sched, merge, audit, admit>>

StatusNext == StatusLookup \/ StatusBusyCheck

StatusSpec == StatusInit /\ [][StatusNext]_vars

\* ============================================ the guards of one admission
\* The request bodies: a /rerun has no staging_url.
AdmitRequest ==
  {q \in [kind : Kinds, ident : Idents \cup {0}, webhook : BOOLEAN, staging : BOOLEAN] :
     q.kind = "rerun" => ~q.staging}

\* A request arrives at a service whose registry is empty or holds the entry of a
\* run (slot 1); the request is followed in slot 2, with what the store answers.
AdmitInit ==
  /\ supabase \in BOOLEAN
  /\ n8nRows \in (IF supabase THEN BOOLEAN ELSE {FALSE})
  /\ activeJobs \in StatusRegistry
  /\ NoRequests
  /\ sched = NoSched /\ merge = NoMerge /\ audit = NoAudit /\ jobStatus = NoStatus
  /\ \E q \in AdmitRequest :
       admit = [pc |-> "new", req |-> q, dup |-> "none", busy |-> "none",
                existing |-> "none", n8nStatus |-> "none", guard2 |-> "none",
                resp |-> NoResp]

\* the handler up to its first await, or to its 400
AdmitReceive ==
  /\ admit.pc = "new"
  /\ LET q == admit.req
         v == Validate(q.kind, q.ident, q.webhook, q.staging) IN
       CASE v = "invalid" -> admit' = [admit EXCEPT !.pc = "rejected", !.resp = Resp400Invalid]
         [] v = "config" -> admit' = [admit EXCEPT !.pc = "rejected", !.resp = Resp400Config]
         [] v = "dupcheck" -> admit' = [admit EXCEPT !.pc = "awaitDup"]
         [] OTHER -> admit' = [admit EXCEPT !.pc = "awaitBusy"]
  /\ UNCHANGED <<serviceVars, sched, merge, audit, jobStatus>>

\* Guard 0 resumes: the projects query answered (a row, no row, an error without
\* data) or threw.
AdmitDuplicate ==
  /\ admit.pc = "awaitDup"
  /\ \E outcome \in {"row", "empty", "error", "throws"} :
       IF outcome = "row"
       THEN admit' = [admit EXCEPT !.pc = "rejected", !.dup = outcome, !.existing = "row",
                                   !.resp = Resp409Duplicate]
       ELSE admit' = [admit EXCEPT !.pc = "awaitBusy", !.dup = outcome]
  /\ UNCHANGED <<serviceVars, sched, merge, audit, jobStatus>>

\* Guard 1 resumes with the answer of isN8nBusy, then Guard 2, the insert and the
\* acknowledgment.
AdmitBusy ==
  /\ admit.pc = "awaitBusy"
  /\ \E outcome \in {"data", "error", "throws"}, n \in 0..MaxPages :
       LET busy == isN8nBusy(outcome)
           key == <<admit.req.kind, admit.req.ident>>
           evaluated == [admit EXCEPT !.busy = outcome, !.n8nStatus = busy] IN
       IF busy = "busy"
       THEN /\ admit' = [evaluated EXCEPT !.pc = "rejected", !.resp = Resp409N8n]
            /\ UNCHANGED activeJobs
       ELSE IF Guard2(2)
       THEN /\ admit' = [evaluated EXCEPT
                           !.pc = "rejected", !.guard2 = "blocked",
                           !.resp = Resp409Busy(activeJobs[CHOOSE k \in DOMAIN activeJobs : TRUE])]
            /\ UNCHANGED activeJobs
       ELSE /\ admit' = [evaluated EXCEPT !.pc = "accepted", !.guard2 = "passed",
                                          !.resp = RespProcessing]
            /\ activeJobs' = [k \in {key} |-> NewJob(admit.req.kind, n, 2)]
  /\ UNCHANGED <<supabase, n8nRows, pc, req, existing, n8nStatus, sawJobs, racedWith, resp,
                 task, posted, cancelCount, cancelResp, cancelReset,
                 sched, merge, audit, jobStatus>>

AdmitNext == AdmitReceive \/ AdmitDuplicate \/ AdmitBusy

AdmitSpec == AdmitInit /\ [][AdmitNext]_vars

\* ================================================================ claims
Rank(stage) ==
  CASE stage = "checking_links" -> 0
    [] stage = "forwarding_to_n8n" -> 1
    [] stage = "completed" -> 2

\* the registry entry r's admission inserted is still there
Holds(r) == jobKey(r) \in DOMAIN activeJobs /\ activeJobs[jobKey(r)].owner = r

\* C1: in every reachable state the registry holds at most one entry.
C1_AtMostOneJob == Cardinality(DOMAIN activeJobs) <= 1

\* the registry holds the entry of one run while a cancelled run still executes
C1_Witness ==
  \E r1, r2 \in Reqs :
    /\ Executing(r1) /\ ~Holds(r1)
    /\ Executing(r2) /\ Holds(r2)
    /\ Cardinality(DOMAIN activeJobs) = 1

\* r1 and r2 are a /start-qa and a /rerun that were suspended in the busy check at
\* the same time, both were told "not busy", r1 found the registry empty, and r1's
\* job was still registered when r2 reached Guard 2
C2_Raced(r1, r2) ==
  /\ r1 # r2
  /\ {req[r1].kind, req[r2].kind} = Kinds
  /\ r1 \in racedWith[r2]
  /\ n8nStatus[r1] = "free" /\ n8nStatus[r2] = "free"
  /\ sawJobs[r1] = {}
  /\ r1 \in sawJobs[r2]

\* C2: of a /start-qa and a /rerun in flight at the same time against an empty
\* registry, downstream not busy, exactly one is accepted with status 'processing'
\* and the other is rejected with 409, provided the accepted run still holds its
\* job when the other reaches Guard 2.
C2_OneAcceptedOneRejected ==
  \A r1, r2 \in Reqs :
    C2_Raced(r1, r2) =>
      /\ resp[r1] = RespProcessing
      /\ pc[r2] = "rejected" /\ resp[r2].status = 409

C2_Witness ==
  \E r1, r2 \in Reqs :
    /\ C2_Raced(r1, r2)
    /\ req[r1].kind = "rerun"
    /\ resp[r2] = Resp409Busy(activeJobs[jobKey(r1)])

\* C3: at any instant at most one run's background task is executing.
C3_NoTwoRunsExecute == Cardinality({r \in Reqs : Executing(r)}) <= 1

\* C4: every accepted run eventually returns from its background task with its
\* job key out of the registry (after success, a thrown link check, a failed POST).
C4_GuaranteedRelease ==
  \A r \in Reqs :
    (pc[r] = "registered") ~> (pc[r] = "done" /\ jobKey(r) \notin DOMAIN activeJobs)

\* C5: a request that passed the earlier guards and found any job in the registry
\* is rejected with 409 server_busy.
C5_RejectedWhileAnyJob ==
  \A r \in Reqs :
    sawJobs[r] # {} =>
      /\ pc[r] = "rejected"
      /\ resp[r].status = 409 /\ resp[r].body = "server_busy"
      /\ resp[r].activeType \in Kinds

\* a second /start-qa, for another project, rejected while the first is running
C5_Witness ==
  \E r, q \in Reqs :
    /\ sawJobs[r] = {q} /\ Executing(q)
    /\ req[r].kind = "start-qa" /\ req[q].kind = "start-qa"
    /\ req[r].ident # req[q].ident
    /\ resp[r] = Resp409Busy(activeJobs[jobKey(q)])

\* C6: the job is in the registry when the acknowledgment is sent, the
\* acknowledgment is sent before any page audit or webhook POST of the run begins,
\* and no audit or POST has begun when it is sent.
C6_AckBeforeWork ==
  /\ [](\A r \in Reqs :
         (task[r].started > 0 \/ posted[r].path # "") => resp[r] = RespProcessing)
  /\ [][\A r \in Reqs :
         (resp[r] = NoResp /\ resp'[r] = RespProcessing) =>
           /\ Holds(r)
           /\ task'[r].started = 0 /\ posted'[r].path = ""]_vars

C6_Witness ==
  \E r \in Reqs :
    /\ pc[r] = "acked" /\ resp[r] = RespProcessing /\ Holds(r)
    /\ task[r].pages > 0 /\ task[r].started = 0 /\ posted[r] = NoPost

\* the answer of the earliest guard r fails, no later guard having been evaluated
C7_Expected(r) ==
  IF req[r].ident = 0
  THEN resp[r] = Resp400Invalid /\ existing[r] = "none" /\ n8nStatus[r] = "none"
  ELSE IF ~req[r].webhook
  THEN resp[r] = Resp400Config /\ existing[r] = "none" /\ n8nStatus[r] = "none"
  ELSE IF existing[r] = "row"
  THEN resp[r] = Resp409Duplicate /\ req[r].kind = "start-qa" /\ n8nStatus[r] = "none"
  ELSE IF n8nStatus[r] = "busy"
  THEN resp[r] = Resp409N8n /\ sawJobs[r] = {}
  ELSE IF sawJobs[r] # {}
  THEN resp[r].status = 409 /\ resp[r].body = "server_busy" /\ resp[r].activeType \in Kinds
  ELSE resp[r] = RespProcessing

\* C7: a request is answered by the earliest guard it fails, in the order
\* identifier (400), webhook URL (400), duplicate staging URL (409, /start-qa only),
\* downstream busy (409), registry non-empty (409); a later guard is not evaluated.
C7_GuardOrder ==
  \A r \in Reqs :
    /\ resp[r] # NoResp => C7_Expected(r)
    /\ resp[r].status \in {400, 409} => pc[r] = "rejected"
    /\ sawJobs[r] # {} \/ n8nStatus[r] = "busy" \/ existing[r] = "row" => resp[r] # NoResp

\* a request without identifier and without webhook URL, arriving while the store
\* is busy and the registry holds a job, is answered 400 Invalid request
C7_Witness ==
  \E r \in Reqs :
    /\ req[r].ident = 0 /\ ~req[r].webhook
    /\ n8nRows /\ DOMAIN activeJobs # {}
    /\ resp[r] = Resp400Invalid

\* C8: as long as a registry entry stays, its stage never moves backward along
\* checking_links, forwarding_to_n8n, completed.
C8_StageMonotonic ==
  [][\A k \in DOMAIN activeJobs \cap DOMAIN activeJobs' :
       activeJobs'[k].owner = activeJobs[k].owner =>
         Rank(activeJobs'[k].stage) >= Rank(activeJobs[k].stage)]_vars

C8_Witness ==
  \E r \in Reqs : Holds(r) /\ pc[r] = "completed" /\ activeJobs[jobKey(r)].stage = "completed"

\* C9: as long as a registry entry stays, checkedPages never decreases, and
\* 0 <= checkedPages <= totalPages in every state.
C9_CheckedPagesBounded ==
  /\ [](\A k \in DOMAIN activeJobs :
         0 <= activeJobs[k].checkedPages
         /\ activeJobs[k].checkedPages <= activeJobs[k].totalPages)
  /\ [][\A k \in DOMAIN activeJobs \cap DOMAIN activeJobs' :
         activeJobs'[k].owner = activeJobs[k].owner =>
           activeJobs'[k].checkedPages >= activeJobs[k].checkedPages]_vars

\* an entry whose run has finished its first chunk and is in its second
C9_Witness ==
  \E r \in Reqs :
    /\ Holds(r) /\ pc[r] = "chunk" /\ task[r].i = 1 /\ task[r].audited = 2
    /\ activeJobs[jobKey(r)].checkedPages = 0
    /\ activeJobs[jobKey(r)].totalPages = 2

\* C10: after the k-th chunk of a run the run's registry entry shows
\* checkedPages = min(k * W, N), and checkedPages = N once the link checks are over.
C10_ProgressPerChunk ==
  \A r \in Reqs :
    Holds(r) =>
      /\ pc[r] = "chunk" =>
            activeJobs[jobKey(r)].checkedPages = Min(task[r].i, task[r].audited)
      /\ pc[r] = "post" /\ posted[r].linkChecks > 0 =>
            activeJobs[jobKey(r)].checkedPages = posted[r].linkChecks

\* the webhook path of a run's kind
PathOf(kind) == IF kind = "start-qa" THEN "/qa/start" ELSE "/qa/rerun"

\* C13: every accepted run eventually issues its webhook POST, to /qa/start for a
\* start run and to /qa/rerun for a rerun, and the POST it issued is never followed
\* by a second one.
C13_OnePostAttempt ==
  /\ \A r \in Reqs : (pc[r] = "registered") ~> (posted[r].path # "")
  /\ [](\A r \in Reqs : posted[r].path # "" => posted[r].path = PathOf(req[r].kind))
  /\ [][\A r \in Reqs :
         posted[r].path # "" /\ pc'[r] # "new" =>
           /\ posted'[r].path = posted[r].path
           /\ posted'[r].pages = posted[r].pages
           /\ posted'[r].linkChecks = posted[r].linkChecks]_vars

\* C14 as stated: a run whose link-check phase threw goes on to forward, and the
\* page list it forwards is the submitted one, without reports.
C14_FallbackOriginalList ==
  [][\A r \in Reqs :
       pc[r] = "chunk" =>
         /\ pc'[r] \in {"chunk", "spin", "post"}
         /\ pc'[r] = "post" /\ posted'[r].step1 = "threw" =>
              /\ posted'[r].path = PathOf(req[r].kind)
              /\ posted'[r].pages = task[r].pages
              /\ posted'[r].linkChecks = 0]_vars

\* C14: a run whose link-check phase threw goes on to forward; a start run forwards
\* the submitted page list without reports, a rerun forwards an empty page list.
C14_FallbackByKind ==
  [][\A r \in Reqs :
       pc[r] = "chunk" =>
         /\ pc'[r] \in {"chunk", "spin", "post"}
         /\ pc'[r] = "post" /\ posted'[r].step1 = "threw" =>
              /\ posted'[r].path = PathOf(req[r].kind)
              /\ posted'[r].pages = IF req[r].kind = "start-qa" THEN task[r].pages ELSE 0
              /\ posted'[r].linkChecks = 0]_vars

\* a rerun and a start run, each forwarding after its link-check phase threw
C14_Witness ==
  \E r, q \in Reqs :
    /\ req[r].kind = "rerun" /\ posted[r].step1 = "threw" /\ posted[r].pages = 0
    /\ req[q].kind = "start-qa" /\ posted[q].step1 = "threw" /\ posted[q].pages = MaxPages

\* the step in which /cancel-job is called
C17_Called == cancelCount = -1 /\ cancelCount' # -1

\* the step in which /cancel-job answers
C17_Answered == cancelResp = NoCancelResp /\ cancelResp' # NoCancelResp

\* C17 as stated: /cancel-job empties the registry and always answers success with
\* clearedJobs the number of entries the registry held when it was called.
C17_CancelAlwaysSucceeds ==
  /\ [][C17_Called =>
         /\ cancelCount' = Cardinality(DOMAIN activeJobs)
         /\ DOMAIN activeJobs' = {}]_vars
  /\ [][C17_Answered => cancelResp' = CancelSuccess(cancelCount')]_vars

\* C17: /cancel-job empties the registry when it is called; it answers success with
\* clearedJobs the number of entries the registry held then, also when the store
\* reset returns an error, and answers 500 without a count when the reset throws.
C17_CancelClearsAndCounts ==
  /\ [][C17_Called =>
         /\ cancelCount' = Cardinality(DOMAIN activeJobs)
         /\ DOMAIN activeJobs' = {}]_vars
  /\ [][C17_Answered =>
         cancelResp' = IF cancelReset' = "throws" THEN CancelFailed
                       ELSE CancelSuccess(cancelCount')]_vars

\* /cancel-job answered success with clearedJobs 1 although the store reset
\* returned an error, while the run it cancelled is still executing
C17_Witness ==
  /\ cancelResp = CancelSuccess(1)
  /\ cancelReset = "error"
  /\ \E r \in Reqs : Executing(r) /\ ~Holds(r)

\* C18: a run whose registry entry was cleared while its link checks were running
\* goes on running, and issues no webhook POST.
C18_CancelledRunPostsNothing ==
  [][\A r \in Reqs :
       pc[r] = "chunk" /\ ~Holds(r) =>
         /\ pc'[r] # "new"
         /\ posted'[r].path = ""]_vars

\* the progress calls of the contract: after chunk n, (pages completed so far, total)
C11_Calls(pages, concurrency) ==
  [n \in 1..Ceil(Len(pages), concurrency) |->
     <<Min(n * concurrency, Len(pages)), Len(pages)>>]

\* C11: when checkMultiplePages returns it has invoked the progress callback once
\* after each chunk, with (pages completed so far, total pages): ceil(N/W) calls,
\* the last one (N, N).
C11_CallbackPerChunk ==
  sched.pc = "returned" => sched.calls = C11_Calls(sched.pages, sched.concurrency)

\* C12: checkMultiplePages returns one result per input page, and the i-th result
\* carries the url and the pageName of the i-th page and the report of its audit,
\* whatever order the audits of a chunk finished in.
C12_OneResultPerPageInOrder ==
  sched.pc = "returned" =>
    /\ Len(sched.results) = Len(sched.pages)
    /\ \A n \in 1..Len(sched.pages) :
         /\ sched.results[n].url = sched.pages[n].url
         /\ sched.results[n].pageName = sched.pages[n].pageName
         /\ sched.results[n].linkChecks = [auditOf |-> n]

\* three pages, width 2, returned; the two audits of the first chunk finished in
\* the reverse of their order
C12_Witness ==
  /\ sched.pc = "returned"
  /\ Len(sched.pages) = 3 /\ sched.concurrency = 2 /\ Len(sched.results) = 3
  /\ sched.pages[1] # sched.pages[2]
  /\ sched.settled = <<2, 1, 3>>

\* the link checks of the followed run completed and its payload is built
C15_Completed == merge.pc = "forward" /\ Len(merge.results) > 0

\* entry e is page p, enriched
C15_EntryOf(e, p) ==
  /\ e.name = p.name /\ e.url = p.url
  /\ e.link_checks = LinkChecksOf(merge.results, p)
  /\ e.link_checks # Absent

\* C15 as stated: when link checking completes, the forwarded page list has one entry
\* for every submitted page, in submission order, with link_checks the page's report
\* or null, for a start run and for a rerun.
C15_OneEntryPerPage ==
  C15_Completed =>
    /\ Len(merge.pagesWithLinkChecks) = Len(merge.pages)
    /\ \A k \in 1..Len(merge.pages) :
         C15_EntryOf(merge.pagesWithLinkChecks[k], merge.pages[k])

\* the submitted pages that have a report, in submission order
C15_Reported == SelectSeq(merge.pages, LAMBDA p : LinkChecksOf(merge.results, p) # Null)

\* C15: when link checking completes, a start run forwards one entry for every
\* submitted page, in submission order, with link_checks the page's report or null;
\* a rerun forwards one entry for every submitted page that has a report, in
\* submission order, with that report, and no entry for the others.
C15_OneEntryPerReportedPage ==
  C15_Completed =>
    LET expected == IF merge.kind = "rerun" THEN C15_Reported ELSE merge.pages IN
    /\ Len(merge.pagesWithLinkChecks) = Len(expected)
    /\ \A k \in 1..Len(expected) :
         C15_EntryOf(merge.pagesWithLinkChecks[k], expected[k])

\* a rerun of a page without URL and a page with one forwards the second only
C15_Witness ==
  /\ C15_Completed /\ merge.kind = "rerun"
  /\ Len(merge.pages) = 2 /\ merge.pages[1].url = <<>>
  /\ Len(merge.pagesWithLinkChecks) = 1
  /\ merge.pagesWithLinkChecks[1].name = 2
  /\ merge.pagesWithLinkChecks[1].link_checks = ReportOf(1)

\* u without its trailing slashes
C16_Core(u) ==
  LET last == CHOOSE k \in 0..Len(u) :
                /\ k > 0 => u[k] # "/"
                /\ \A j \in (k + 1)..Len(u) : u[j] = "/" IN
  SubSeq(u, 1, last)

\* the results whose URL equals the URL of page p up to trailing slashes
C16_Matches(p) ==
  {n \in 1..Len(merge.results) : C16_Core(merge.results[n].url) = C16_Core(p.url)}

\* the link_checks the payload carries for page p: null also when p has no entry
C16_Received(p) ==
  IF \E k \in 1..Len(merge.pagesWithLinkChecks) : merge.pagesWithLinkChecks[k].name = p.name
  THEN merge.pagesWithLinkChecks[
         CHOOSE k \in 1..Len(merge.pagesWithLinkChecks) :
           merge.pagesWithLinkChecks[k].name = p.name].link_checks
  ELSE Null

\* C16: a submitted page receives the report of a result whose URL equals its own
\* after stripping all trailing slashes, and no report when there is no such result.
C16_SlashInsensitiveMatch ==
  C15_Completed =>
    \A k \in 1..Len(merge.pages) :
      LET p == merge.pages[k] IN
      IF C16_Matches(p) = {} THEN C16_Received(p) = Null
      ELSE \E n \in C16_Matches(p) : C16_Received(p) = merge.results[n].linkChecks

\* the page "a//" submitted after the page "a" is given the report of "a"
C16_Witness ==
  /\ C15_Completed
  /\ Len(merge.pages) = 2
  /\ merge.pages[1].url = <<"a">> /\ merge.pages[2].url = <<"a", "/", "/">>
  /\ Len(merge.pagesWithLinkChecks) = 2
  /\ merge.pagesWithLinkChecks[2].link_checks = ReportOf(1)

\* C19: the verdict of a page audit is ERROR iff the page could not be loaded,
\* otherwise FAIL iff brokenCount > 0 or missingNoopener > 0, otherwise PASS.
C19_Verdict ==
  audit.pc = "returned" =>
    audit.report.overall =
      IF ~audit.loaded THEN "ERROR"
      ELSE IF audit.report.brokenCount > 0 \/ audit.report.missingNoopener > 0 THEN "FAIL"
      ELSE "PASS"

\* what a request came to is a failure or a status of 400 or more
C20_Bad(request) == request.tried /\ (request.outcome = 0 \/ request.outcome >= 400)

\* C20: for every checked link HEAD is tried first; GET is tried once iff HEAD
\* failed or returned a status of 400 or more; the link is recorded as broken iff
\* both attempts failed or returned a status of 400 or more.
C20_HeadThenGet ==
  \A n \in 1..Len(audit.log) :
    LET entry == audit.log[n] IN
      /\ entry.head.tried
      /\ entry.get.tried <=> C20_Bad(entry.head)
      /\ entry.broken <=> (C20_Bad(entry.head) /\ C20_Bad(entry.get))

\* the checkable hrefs among the anchors the loop has gone through
C21_Hrefs ==
  {audit.links[k].href : k \in {j \in 1..(audit.n - 1) : isCheckableLink(audit.links[j].href)}}

\* the verifications of href h so far: each is one HEAD and at most one GET
C21_Verifications(h) == Cardinality({k \in 1..Len(audit.log) : audit.log[k].href = h})

\* every raw anchor counts in the totalLinks of the report the try block returns
C21_TotalLinks ==
  audit.pc = "returned" /\ audit.report.overall # "ERROR" =>
    audit.report.totalLinks = Len(audit.links)

\* C21 as stated: between two iterations of the loop, every distinct checkable href
\* gone through has been verified exactly once and is counted once, in externalLinks
\* or in internalLinks; every raw anchor counts in totalLinks.
C21_EachHrefVerifiedOnce ==
  /\ audit.pc = "loop" =>
       /\ \A h \in C21_Hrefs : C21_Verifications(h) = 1
       /\ audit.externalLinks = Cardinality({h \in C21_Hrefs : isExternal(h)})
       /\ audit.internalLinks = Cardinality({h \in C21_Hrefs : ~isExternal(h)})
  /\ C21_TotalLinks

\* the hrefs that new URL parses; those of them that get a liveness request
C21_Parsed == {h \in C21_Hrefs : isValidUrl(h)}
C21_Requested == {h \in C21_Parsed : ~(isExternal(h) /\ isSocialMediaLink(h))}

\* C21: between two iterations of the loop, every distinct checkable href gone
\* through that parses as a URL is counted once, in externalLinks or in
\* internalLinks, and has been verified exactly once unless it is an external
\* social media link, which is not verified; an href that does not parse is neither
\* counted nor verified; every raw anchor counts in totalLinks.
C21_EachParsedHrefOnce ==
  /\ audit.pc = "loop" =>
       /\ \A h \in C21_Hrefs : C21_Verifications(h) = IF h \in C21_Requested THEN 1 ELSE 0
       /\ audit.externalLinks = Cardinality({h \in C21_Parsed : isExternal(h)})
       /\ audit.internalLinks = Cardinality({h \in C21_Parsed : ~isExternal(h)})
  /\ C21_TotalLinks

\* two anchors with one external href: one verification, one external link, two
\* anchors in totalLinks
C21_Witness ==
  /\ audit.pc = "returned" /\ audit.report.overall # "ERROR"
  /\ Len(audit.links) = 2 /\ audit.links[1].href = audit.links[2].href
  /\ audit.links[1].rel # audit.links[2].rel
  /\ Len(audit.log) = 1 /\ audit.log[1].get.tried
  /\ audit.report.externalLinks = 1 /\ audit.report.internalLinks = 0
  /\ audit.report.totalLinks = 2

\* href is an external link whose hostname is a denylisted host or a subdomain of one
C22_Social(href) ==
  /\ isCheckableLink(href) /\ href.host # <<>>
  /\ <<href.scheme, href.host>> # <<PageScheme, PageHost>>
  /\ \E domain \in socialMediaDomains, k \in 0..Len(href.host) :
       /\ k + Len(domain) = Len(href.host)
       /\ \A j \in 1..Len(domain) : href.host[k + j] = domain[j]

\* the loop is at the first anchor of a social media link
C22_AtSocial ==
  /\ audit.pc = "loop" /\ audit.n <= Len(audit.links)
  /\ C22_Social(audit.links[audit.n].href)
  /\ \A j \in 1..(audit.n - 1) : audit.links[j].href # audit.links[audit.n].href

\* C22: an external link on a denylisted social/media host, or on a subdomain of
\* one, never receives a liveness request and never appears among the broken links
\* or in brokenCount; its first anchor adds 1 to externalLinks and, if its rel lacks
\* noopener or noreferrer, 1 to missingNoopener.
C22_SocialCountedNotChecked ==
  /\ [](/\ \A k \in 1..Len(audit.log) : ~C22_Social(audit.log[k].href)
        /\ audit.pc \in {"loop", "head", "get"} =>
             \A k \in 1..Len(audit.brokenLinks) : ~C22_Social(audit.brokenLinks[k])
        /\ audit.pc = "returned" =>
             /\ \A k \in 1..Len(audit.report.brokenLinks) :
                  ~C22_Social(audit.report.brokenLinks[k])
             /\ \A k \in 1..Len(audit.report.brokenExternalLinks) :
                  ~C22_Social(audit.report.brokenExternalLinks[k])
             /\ audit.report.brokenCount <= Len(audit.log))
  /\ [][C22_AtSocial =>
         /\ audit'.pc = "loop" /\ audit'.n = audit.n + 1
         /\ audit'.externalLinks = audit.externalLinks + 1
         /\ audit'.missingNoopener =
              audit.missingNoopener
              + (IF audit.links[audit.n].rel = "noopener noreferrer" THEN 0 ELSE 1)
         /\ audit'.brokenLinks = audit.brokenLinks]_vars

\* a page whose only anchor goes to m.x.com with rel="noopener": no request, one
\* external link, one missing attribute, nothing broken
C22_Witness ==
  /\ audit.pc = "returned" /\ audit.report.overall = "FAIL"
  /\ Len(audit.links) = 1
  /\ audit.links[1].href.host = <<"m", "x", "com">> /\ audit.links[1].rel = "noopener"
  /\ audit.log = <<>>
  /\ audit.report.externalLinks = 1 /\ audit.report.missingNoopener = 1
  /\ audit.report.brokenCount = 0 /\ audit.report.brokenLinks = <<>>

\* list has no href twice
C23_NoDuplicate(list) ==
  \A j, k \in 1..Len(list) : j # k => list[j] # list[k]

\* list is the first entries, at most 10, of the count hrefs recorded in full
C23_Capped(list, full, count) ==
  /\ Len(list) <= 10
  /\ C23_NoDuplicate(list)
  /\ count = Len(full) /\ count >= Len(list)
  /\ Len(list) = (IF count < 10 THEN count ELSE 10)

\* C23: in every report each example list (brokenLinks, brokenExternalLinks,
\* brokenInternalLinks, linksWithoutNoopener) has at most 10 entries and no href
\* twice, and its count field (brokenCount, brokenExternalCount,
\* brokenInternalCount, missingNoopener) is the number of hrefs recorded, capped or
\* not, and is at least the length of the list.
C23_ListsCappedCountsTrue ==
  audit.pc = "returned" =>
    LET report == audit.report
        full == IF report.overall = "ERROR"
                THEN [external |-> <<>>, internal |-> <<>>, noopener |-> <<>>]
                ELSE [external |-> audit.brokenLinks,
                      internal |-> audit.brokenInternalLinks,
                      noopener |-> audit.linksWithoutNoopener] IN
    /\ C23_Capped(report.brokenLinks, full.external \o full.internal, report.brokenCount)
    /\ C23_Capped(report.brokenExternalLinks, full.external, report.brokenExternalCount)
    /\ C23_Capped(report.brokenInternalLinks, full.internal, report.brokenInternalCount)
    /\ C23_Capped(report.linksWithoutNoopener, full.noopener, report.missingNoopener)
    /\ C23_NoDuplicate(full.external \o full.internal)
    /\ C23_NoDuplicate(full.noopener)
    /\ report.overall # "ERROR" =>
         report.brokenCount = Cardinality({k \in 1..Len(audit.log) : audit.log[k].broken})

\* eleven external links without rel, none of which answers: 11 broken and 11
\* lacking the attributes, 10 of each listed
C23_Witness ==
  /\ audit.pc = "returned"
  /\ Len(audit.links) = 11
  /\ audit.report.brokenCount = 11 /\ Len(audit.report.brokenLinks) = 10
  /\ audit.report.brokenExternalCount = 11 /\ Len(audit.report.brokenExternalLinks) = 10
  /\ audit.report.missingNoopener = 11 /\ Len(audit.report.linksWithoutNoopener) = 10

\* C24: the audit of a page that cannot be loaded does not throw: it returns a
\* report with verdict ERROR, all counts 0, all lists empty and a non-null issue.
C24_LoadFailureReported ==
  audit.pc \in {"returned", "rejected"} /\ ~audit.loaded =>
    /\ audit.pc = "returned"
    /\ audit.report.overall = "ERROR"
    /\ audit.report.issue # <<>>
    /\ audit.report.externalLinks = 0 /\ audit.report.internalLinks = 0
    /\ audit.report.totalLinks = 0 /\ audit.report.missingNoopener = 0
    /\ audit.report.brokenCount = 0 /\ audit.report.brokenLinks = <<>>
    /\ audit.report.brokenExternalCount = 0 /\ audit.report.brokenExternalLinks = <<>>
    /\ audit.report.brokenInternalCount = 0 /\ audit.report.brokenInternalLinks = <<>>
    /\ audit.report.linksWithoutNoopener = <<>>

\* the registry entries keyed start-qa:<project_name> or rerun:<project_id>
C25_Keyed ==
  {k \in DOMAIN activeJobs :
     \/ jobStatus.query.name # 0 /\ k = <<"start-qa", jobStatus.query.name>>
     \/ jobStatus.query.id # 0 /\ k = <<"rerun", jobStatus.query.id>>}

\* C25: a request GET /job-status that names a project is answered found:true with
\* the type, stage, totalPages and checkedPages of the registry entry keyed
\* start-qa:<project_name> or rerun:<project_id> when there is one; when there is
\* none, with the synthetic n8n_processing record if the busy check reports busy and
\* with found:false otherwise; and no step of the handler changes the registry.
C25_JobStatusReadOnly ==
  /\ [](jobStatus.pc = "answered" /\ (jobStatus.query.name # 0 \/ jobStatus.query.id # 0) =>
          IF C25_Keyed # {}
          THEN \E k \in C25_Keyed :
                 /\ jobStatus.resp.found /\ jobStatus.resp.status = 200
                 /\ jobStatus.resp.type = activeJobs[k].type
                 /\ jobStatus.resp.stage = activeJobs[k].stage
                 /\ jobStatus.resp.totalPages = activeJobs[k].totalPages
                 /\ jobStatus.resp.checkedPages = activeJobs[k].checkedPages
          ELSE IF jobStatus.n8nStatus = "busy"
          THEN jobStatus.resp.found /\ jobStatus.resp.type = "n8n_processing"
          ELSE ~jobStatus.resp.found /\ jobStatus.resp.status = 200)
  /\ [][activeJobs' = activeJobs]_vars

\* a request naming project 1 and project id 2 is answered with the entry of the
\* rerun of project 2, which is forwarding with 1 of 2 pages checked
C25_Witness ==
  /\ jobStatus.pc = "answered"
  /\ jobStatus.query = [name |-> 1, id |-> 2]
  /\ DOMAIN activeJobs = {<<"rerun", 2>>}
  /\ jobStatus.resp = [status |-> 200, found |-> TRUE, type |-> "rerun",
                    stage |-> "forwarding_to_n8n", totalPages |-> 2, checkedPages |-> 1]

\* the chunk of the page at position k, for width W: 0 for the first W pages
C26_ChunkOf(k, W) == (k - 1) \div W

\* the positions whose audit has returned
C26_Returned ==
  {sched.settled[n] : n \in 1..Len(sched.settled)}
  \cup {sched.order[n] : n \in 1..Len(sched.order)}

\* C26: while a call of checkMultiplePages of width W waits, at most W audits are in
\* flight, and every page of an earlier chunk than that of an audit in flight or
\* returned has had its audit returned.
C26_SteppedConcurrency ==
  sched.pc = "await" =>
    /\ Cardinality(sched.inflight) <= sched.concurrency
    /\ \A k \in sched.inflight \cup C26_Returned, j \in 1..Len(sched.pages) :
         C26_ChunkOf(j, sched.concurrency) < C26_ChunkOf(k, sched.concurrency) =>
           j \in C26_Returned
    /\ \A k \in sched.inflight : k \notin C26_Returned

\* three pages, width 2: page 2 is still audited after page 1 returned, and page 3
\* has not started
C26_Witness ==
  /\ sched.pc = "await"
  /\ Len(sched.pages) = 3 /\ sched.concurrency = 2
  /\ sched.order = <<1>> /\ sched.inflight = {2} /\ sched.settled = <<>>

\* the step is one of the exchange in slot r: its handler or its background task
C27_StepOf(r) == pc'[r] # pc[r] \/ task'[r] # task[r]

\* C27: a registry entry is changed (stage, checkedPages, totalPages) or removed
\* only by a step of the run whose admission inserted it, or by /cancel-job; never
\* by the background task of another run, also when both runs have the same key.
C27_OnlyOwnEntry ==
  [][\A k \in DOMAIN activeJobs :
       (k \notin DOMAIN activeJobs' \/ activeJobs'[k] # activeJobs[k]) =>
         C17_Called \/ C27_StepOf(activeJobs[k].owner)]_vars

\* C28: the registry entry of a run whose background task is executing stays in
\* the registry until /cancel-job clears it or the run's own cleanup removes it, so
\* that no other request is accepted before.
C28_EntryStaysWhileExecuting ==
  [][\A r \in Reqs :
       Executing(r) /\ Holds(r) /\ ~C17_Called =>
         \/ Holds(r)'
         \/ pc'[r] = "done"]_vars

\* the hrefs recorded as broken so far
C29_Broken ==
  {audit.brokenLinks[k] : k \in 1..Len(audit.brokenLinks)}
  \cup {audit.brokenInternalLinks[k] : k \in 1..Len(audit.brokenInternalLinks)}

\* the hrefs gone through on which new URL threw
C29_Unparsed ==
  {audit.links[k].href :
     k \in {j \in 1..(audit.n - 1) : /\ isCheckableLink(audit.links[j].href)
                                      /\ audit.links[j].href.host = <<>>}}

\* the hrefs whose HEAD request and GET request both threw
C29_Unreachable ==
  {audit.log[k].href :
     k \in {j \in 1..Len(audit.log) : /\ Rejects(audit.log[j].head.outcome)
                                      /\ audit.log[j].get.tried
                                      /\ Rejects(audit.log[j].get.outcome)}}

\* no step of the link loop leaves the loop for the catch block of the audit
C29_NotPropagated ==
  [][audit.pc \in {"head", "get"} \/ (audit.pc = "loop" /\ audit.n <= Len(audit.links)) =>
       /\ audit'.pc \in {"loop", "head", "get"}
       /\ audit'.n \in {audit.n, audit.n + 1}]_vars

\* C29 as stated: every link on which the check raised an exception, in parsing its
\* URL or in both its requests, is counted as broken, and no such exception is
\* propagated: the loop goes on to the next link.
C29_ExceptionMeansBroken ==
  /\ [](audit.pc = "loop" => C29_Unparsed \cup C29_Unreachable \subseteq C29_Broken)
  /\ C29_NotPropagated

\* C29: a link whose HEAD request and GET request both raised an exception is
\* counted as broken; a link whose URL does not parse is skipped, counted neither as
\* broken nor as a link; no such exception is propagated: the loop goes on to the
\* next link.
C29_RequestFailureMeansBroken ==
  /\ [](audit.pc = "loop" =>
          /\ C29_Unreachable \subseteq C29_Broken
          /\ C29_Unparsed \cap C29_Broken = {}
          /\ \A k \in 1..Len(audit.log) : audit.log[k].href \notin C29_Unparsed)
  /\ [](audit.pc = "returned" /\ audit.report.overall # "ERROR" =>
          audit.report.brokenCount >= Cardinality(C29_Unreachable))
  /\ C29_NotPropagated

\* the first link does not parse and both requests of the second, internal, link
\* fail: the audit returns FAIL with one broken link and one link counted
C29_Witness ==
  /\ audit.pc = "returned" /\ audit.report.overall = "FAIL"
  /\ Len(audit.links) = 2
  /\ audit.links[1].href.scheme = "https" /\ audit.links[1].href.host = <<>>
  /\ audit.links[2].href.host = PageHost
  /\ Len(audit.log) = 1
  /\ audit.log[1].head.outcome = 0 /\ audit.log[1].get = Tried(500)
  /\ audit.report.brokenCount = 1 /\ audit.report.brokenInternalCount = 1
  /\ audit.report.internalLinks = 1 /\ audit.report.externalLinks = 0

\* anchor k is the first one with its href
C30_First(k) == \A j \in 1..(k - 1) : audit.links[j].href # audit.links[k].href

\* the unique external links gone through whose rel, that of their first anchor,
\* lacks noopener or noreferrer
C30_Lacking ==
  {k \in 1..(audit.n - 1) :
     /\ C30_First(k)
     /\ isCheckableLink(audit.links[k].href) /\ audit.links[k].href.host # <<>>
     /\ <<audit.links[k].href.scheme, audit.links[k].href.host>> # <<PageScheme, PageHost>>
     /\ audit.links[k].rel # "noopener noreferrer"}

\* the page has one anchor, external, with rel="noopener", and HEAD answered 404
C30_Example ==
  /\ Len(audit.links) = 1
  /\ audit.links[1] = [href |-> [scheme |-> "https", host |-> <<"notx", "com">>, path |-> 1],
                       rel |-> "noopener"]
  /\ Len(audit.log) = 1 /\ audit.log[1].head = Tried(404)

\* C30: every unique external link whose rel lacks noopener or lacks noreferrer adds
\* exactly 1 to missingNoopener, whatever its liveness check gives, and internal
\* links add nothing; a single external link with rel="noopener" answering 404
\* gives externalLinks 1, brokenCount 1, missingNoopener 1 and verdict FAIL.
C30_MissingAttributesCounted ==
  /\ audit.pc = "loop" =>
       /\ audit.missingNoopener = Cardinality(C30_Lacking)
       /\ audit.linksWithoutNoopener \in [1..Cardinality(C30_Lacking) ->
                                           {audit.links[k].href : k \in C30_Lacking}]
  /\ audit.pc = "returned" /\ audit.report.overall # "ERROR" =>
       /\ audit.report.missingNoopener = Cardinality(C30_Lacking)
       /\ C30_Example =>
            /\ audit.report.externalLinks = 1 /\ audit.report.brokenCount = 1
            /\ audit.report.missingNoopener = 1 /\ audit.report.overall = "FAIL"

\* the example, returned
C30_Witness ==
  /\ audit.pc = "returned" /\ audit.report.overall = "FAIL"
  /\ C30_Example
  /\ audit.report.linksWithoutNoopener = <<audit.links[1].href>>
  /\ audit.report.brokenLinks = <<audit.links[1].href>>

\* the place on the page of the first anchor with href h
C31_Place(h) ==
  CHOOSE k \in 1..Len(audit.links) :
    /\ audit.links[k].href = h
    /\ \A j \in 1..(k - 1) : audit.links[j].href # h

\* list holds the first 10 of the hrefs in qualifying, in the order of the page
C31_FirstTen(list, qualifying) ==
  /\ Len(list) = (IF Cardinality(qualifying) < 10 THEN Cardinality(qualifying) ELSE 10)
  /\ \A i \in 1..Len(list) : list[i] \in qualifying
  /\ \A i, j \in 1..Len(list) : i < j => C31_Place(list[i]) < C31_Place(list[j])
  /\ \A h \in qualifying :
       (\A i \in 1..Len(list) : list[i] # h) =>
         \A i \in 1..Len(list) : C31_Place(list[i]) < C31_Place(h)

\* the hrefs found broken
C31_BrokenHrefs == {audit.log[k].href : k \in {j \in 1..Len(audit.log) : audit.log[j].broken}}

\* C31: in a report, brokenLinks holds the first 10 broken links, internal or
\* external, in page order, and brokenExternalLinks, brokenInternalLinks and
\* linksWithoutNoopener hold the first 10 links of their kind in page order.
C31_ListsInPageOrder ==
  audit.pc = "returned" /\ audit.report.overall # "ERROR" =>
    /\ C31_FirstTen(audit.report.brokenLinks, C31_BrokenHrefs)
    /\ C31_FirstTen(audit.report.brokenExternalLinks,
                    {h \in C31_BrokenHrefs : isExternal(h)})
    /\ C31_FirstTen(audit.report.brokenInternalLinks,
                    {h \in C31_BrokenHrefs : ~isExternal(h)})
    /\ C31_FirstTen(audit.report.linksWithoutNoopener,
                    {audit.links[k].href : k \in C30_Lacking})

\* the part of the issue text for a count: none when the count is 0
C32_Part(count, what) == IF count > 0 THEN <<[count |-> count, what |-> what]>> ELSE <<>>

\* the counts of a report, listed as the issue text lists them
C32_Listed(report) ==
  C32_Part(report.brokenInternalCount, "broken internal")
  \o C32_Part(report.brokenExternalCount, "broken external")
  \o C32_Part(report.missingNoopener, "missing noopener/noreferrer")

\* C32 as stated: the issue of a report is null exactly when its verdict is PASS;
\* otherwise it lists the non-zero counts, broken internal, broken external, missing
\* security attributes, in this order.
C32_IssueListsCounts ==
  audit.pc = "returned" =>
    /\ audit.report.issue = <<>> <=> audit.report.overall = "PASS"
    /\ audit.report.overall # "PASS" => audit.report.issue = C32_Listed(audit.report)

\* C32: the issue of a report is null exactly when its verdict is PASS; when the
\* verdict is FAIL it lists the non-zero counts, broken internal, broken external,
\* missing security attributes, in this order; when the verdict is ERROR it is the
\* error message and lists no count.
C32_IssueByVerdict ==
  audit.pc = "returned" =>
    /\ audit.report.issue = <<>> <=> audit.report.overall = "PASS"
    /\ audit.report.overall = "FAIL" => audit.report.issue = C32_Listed(audit.report)
    /\ audit.report.overall = "ERROR" => audit.report.issue = <<"Error checking page">>

\* a FAIL report whose issue has the three parts, one link each
C32_Witness ==
  /\ audit.pc = "returned" /\ audit.report.overall = "FAIL"
  /\ audit.report.issue = <<[count |-> 1, what |-> "broken internal"],
                            [count |-> 1, what |-> "broken external"],
                            [count |-> 1, what |-> "missing noopener/noreferrer"]>>

\* the admission has passed the point where Guard 1 is evaluated
C33_PastBusyGuard == admit.pc \in {"rejected", "accepted"} /\ admit.busy # "none"

\* the admission has passed the point where Guard 0 stands
C33_PastDuplicateGuard ==
  admit.pc \in {"awaitBusy", "accepted"} \/ (admit.pc = "rejected" /\ admit.resp.status = 409)

C33_WitnessRegistryDecides ==
  /\ admit.pc = "rejected" /\ admit.busy = "throws" /\ supabase /\ n8nRows
  /\ admit.guard2 = "blocked" /\ admit.resp.activeType \in Kinds

\* request r is rejected in this step
C34_Rejected(r) == pc[r] # "rejected" /\ pc'[r] = "rejected"

\* C34: a request rejected by a guard gets a 400 or a 409 and the step leaves the
\* registry, every task and every webhook POST as they were; the request has no
\* task and no POST, and gets none afterwards; an entry is inserted for a request
\* only in the step that accepts it.
C34_RejectionLeavesNoTrace ==
  [][\A r \in Reqs :
       /\ C34_Rejected(r) =>
            /\ resp'[r].status \in {400, 409}
            /\ activeJobs' = activeJobs /\ task' = task /\ posted' = posted
            /\ task[r] = NoTask /\ posted[r] = NoPost /\ ~Holds(r)
       /\ pc[r] = "rejected" =>
            /\ pc'[r] \in {"rejected", "new"}
            /\ task'[r] = NoTask /\ posted'[r] = NoPost /\ ~Holds(r)'
       /\ ~Holds(r) /\ Holds(r)' => pc[r] = "awaitBusy" /\ pc'[r] = "registered"]_vars

\* a request was rejected with a 409 while another run holds its entry and executes
C34_Witness ==
  \E r, o \in Reqs :
    /\ pc[r] = "rejected" /\ resp[r].status = 409 /\ resp[r].activeType \in Kinds
    /\ Holds(o) /\ Executing(o)

\* C35: whatever settings.concurrency carries, the width W of a link-check phase
\* is an integer of at least 1, and the phase is at one of its ceil(N/W) chunks.
C35_WidthAtLeastOne ==
  \A r \in Reqs :
    pc[r] \in {"chunk", "spin"} =>
      /\ task[r].concurrency >= 1
      /\ pc[r] = "chunk"
      /\ task[r].i \div task[r].concurrency < Ceil(task[r].audited, task[r].concurrency)

\* the distinct checkable hrefs of the page; those of them that new URL parses
C36_Checkable == {audit.links[k].href : k \in {j \in 1..Len(audit.links) : isCheckableLink(audit.links[j].href)}}
C36_Parsed == {h \in C36_Checkable : isValidUrl(h)}

\* the relations between the counts of a report that hold whatever the page
C36_Relations(report) ==
  /\ report.externalLinks + report.internalLinks <= report.totalLinks
  /\ report.brokenCount = report.brokenExternalCount + report.brokenInternalCount
  /\ report.brokenInternalCount <= report.internalLinks
  /\ report.brokenExternalCount
       <= Cardinality({h \in C36_Parsed : isExternal(h) /\ ~isSocialMediaLink(h)})
  /\ report.missingNoopener <= report.externalLinks

\* C36 as stated: in every report that is not an ERROR report, externalLinks +
\* internalLinks is the number of distinct checkable hrefs, and the relations hold.
C36_CountsAddUp ==
  audit.pc = "returned" /\ audit.report.overall # "ERROR" =>
    /\ audit.report.externalLinks + audit.report.internalLinks = Cardinality(C36_Checkable)
    /\ C36_Relations(audit.report)

\* C36: in every report that is not an ERROR report, externalLinks + internalLinks
\* is the number of distinct checkable hrefs that parse as URLs, and the relations
\* hold.
C36_ParsedCountsAddUp ==
  audit.pc = "returned" /\ audit.report.overall # "ERROR" =>
    /\ audit.report.externalLinks + audit.report.internalLinks = Cardinality(C36_Parsed)
    /\ C36_Relations(audit.report)

\* a report of a page with an href that does not parse beside a broken external
\* link without the attributes
C36_Witness ==
  /\ audit.pc = "returned" /\ audit.report.overall # "ERROR"
  /\ Cardinality(C36_Checkable) = 2 /\ Cardinality(C36_Parsed) = 1
  /\ audit.report.totalLinks = 2 /\ audit.report.externalLinks = 1
  /\ audit.report.brokenCount = 1 /\ audit.report.brokenExternalCount = 1
  /\ audit.report.missingNoopener = 1

\* C37: the stage of a run's entry is 'completed' only once that run's webhook
\* POST has returned successfully; a run whose POST fails or times out has its
\* entry removed, its stage never having been 'completed'.
C37_CompletedOnlyAfterPost ==
  [][\A r \in Reqs :
       /\ Holds(r)' /\ activeJobs'[jobKey(r)].stage = "completed" => posted'[r].result = "ok"
       /\ pc[r] = "post" /\ posted'[r].result = "failed" => ~Holds(r)']_vars

\* C38: when a page audit returns, the browser it launched is closed, whether the
\* audit returns the report of a loaded page or the ERROR report of a page that
\* failed to load; an audit that returns without a closed browser launched none.
C38_BrowserClosedOnReturn ==
  audit.pc = "returned" =>
    /\ audit.browser # "open"
    /\ audit.browser = "none" => ~audit.loaded /\ audit.report.overall = "ERROR"

\* the page failed to load and the audit returned its ERROR report
C38_Witness ==
  /\ audit.pc = "returned" /\ audit.report.overall = "ERROR"
  /\ ~audit.loaded /\ audit.browser = "closed"

\* the audit of a loaded page returned its report
C38_WitnessSuccess ==
  /\ audit.pc = "returned" /\ audit.report.overall = "FAIL"
  /\ audit.loaded /\ audit.browser = "closed"
====
